---- MODULE Spec2Model ----
(***************************************************************************)
(* Model of the mini Next.js page router.                                  *)
(*                                                                         *)
(*   SpecCache  : the Router's data layer (client/router.tsx): the page-   *)
(*                data cache, request coalescing, fetchPageData and its    *)
(*                callers push / replace / prefetch.                       *)
(*   SpecNav    : navigation (client/router.tsx, client/link.tsx): push /  *)
(*                replace, the popstate listener, the hydration of the     *)
(*                render root and the routeChangeComplete handler that     *)
(*                re-renders into it.                                      *)
(*   SpecBuild  : the build (build/generate-routes.js): the page scan,     *)
(*                renderStaticPage for every route of the manifest, the    *)
(*                artifacts written and the manifest write.                *)
(*   SpecDispatch : route matching (server/router.ts, client/link.tsx) and *)
(*                the substitution of values into route paths.             *)
(*   SpecServe  : the server process (server/index.ts): the manifest load, *)
(*                express.static, and the data and document handlers.      *)
(*                                                                         *)
(* JavaScript runs every callback to completion, and the reactions of a    *)
(* settled promise run in the microtask checkpoint that follows, in the    *)
(* order in which they were registered.  An action of the client is        *)
(* therefore one macrotask together with the microtasks it triggers.       *)
(***************************************************************************)
EXTENDS Integers, Sequences, FiniteSets, TLC

VARIABLES
    \* ---- client: Router fields (client/router.tsx) ----
    pathname,           \* Router.pathname
    query,              \* Router.query
    listeners,          \* Router.listeners, in registration order
    cache,              \* Router.cache: url -> cached page data
    prefetchPromises,   \* Router.prefetchPromises: url -> pending promise
    \* ---- client: browser ----
    history,            \* window.history entries
    hidx,               \* position of the current entry in history
    inflight,           \* network requests the browser has not answered yet
    netCalls,           \* url -> number of network requests issued so far
    calls,              \* every call of push/replace/prefetch/fetchPageData
    failedSince,        \* url -> a request failed and no call for url followed
    \* ---- client: link.tsx module state ----
    hydratePc,          \* position of hydrate()
    globalRoot,         \* link.tsx globalRoot: 0 is null, else the root's id
    rootsCreated,       \* number of React roots created so far
    rendered,           \* what the page shows: the root rendered into, the data
    loads,              \* routeChangeComplete handlers awaiting loadPageComponent
    fetchOrder,         \* navigations in the order their data arrived
    renderOrder,        \* navigations in the order renderPage rendered them
    \* ---- build (build/generate-routes.js) ----
    routes,             \* manifest.routes, in manifest order
    modules,            \* the page module of every route
    buildPc,            \* position of the build script
    cursor,             \* index of the next route of the render loop
    results,            \* renderStaticPage's return value, per route
    written,            \* log of the artifact files written, in order
    disk,               \* the files of the output directory
    invoked,            \* log of the capability invocations, in order
    manifestFile,       \* the persisted manifest (its routes), or <<>>
    \* ---- dispatch (server/router.ts, client/link.tsx) ----
    pagesTree,          \* the page files of the pages directory, in scan order
    routeManifest,      \* router.ts routeManifest: <<>> is null, else <<routes>>
    matched,            \* the request under way and what matchRoute returned
    located,            \* the page the client looked up for it, and where
    trip,               \* the substitution of values into a route path under way
    \* ---- server process (server/index.ts) ----
    serverPc,           \* position of the server's start-up
    manifestParses,     \* the manifest file holds JSON text
    loadCalls,          \* number of loadManifest calls that returned
    response,           \* the last request and the response sent to it
    \* ---- listener registry (client/router.tsx on / off / emit) ----
    dispatched          \* the last call of on / off / emit and what it did

clientVars == <<pathname, query, listeners, cache, prefetchPromises, history,
                hidx, inflight, netCalls, calls, failedSince, hydratePc,
                globalRoot, rootsCreated, rendered, loads, fetchOrder,
                renderOrder>>

buildVars == <<routes, modules, buildPc, cursor, results, written, disk,
               invoked, manifestFile>>

dispatchVars == <<pagesTree, routeManifest, matched, located, trip>>

serveVars == <<serverPc, manifestParses, loadCalls, response>>

registryVars == <<dispatched>>

vars == <<pathname, query, listeners, cache, prefetchPromises, history,
          hidx, inflight, netCalls, calls, failedSince, hydratePc,
          globalRoot, rootsCreated, rendered, loads, fetchOrder,
          renderOrder, routes, modules, buildPc, cursor, results, written,
          disk, invoked, manifestFile, pagesTree, routeManifest, matched, located,
          trip, serverPc, manifestParses, loadCalls, response, dispatched>>

(***************************************************************************)
(* Bounds                                                                  *)
(***************************************************************************)
\* calls of push / replace / prefetch / fetchPageData in one run
MaxCalls == 3
\* calls of push / replace among them
MaxNavs == 2
\* page files in the pages directory of one build
MaxRoutes == 2
\* parameter tuples a getStaticPaths returns
MaxTuples == 2

(***************************************************************************)
(* CLIENT                                                                  *)
(***************************************************************************)
URLs == {"/about", "/blog/1"}

\* The value a data-only request delivers.  kind "page" is the payload
\* { pageProps, query, page } of the server's res.json (n tells the
\* responses of successive requests for one url apart; n = 0 is the data
\* embedded in the initial document); kind "error" is the JSON body of a
\* 404 / 500 answer, which fetch() resolves with like any other body;
\* kind "none" is undefined.
PageData(u, n) == [kind |-> "page", url |-> u, n |-> n]
ErrorBody(u, n) == [kind |-> "error", url |-> u, n |-> n]
NoData == [kind |-> "none", url |-> "", n |-> 0]

EmptyQuery == "{}"

\* data.query || {}
QueryOf(data) == IF data.kind = "page" THEN data.url ELSE EmptyQuery


Nav == {"push", "replace"}

\* The part of the client state a navigation's continuation works on.
ClientState ==
    [pathname |-> pathname, query |-> query, history |-> history,
     hidx |-> hidx, calls |-> calls, loads |-> loads,
     fetchOrder |-> fetchOrder, threw |-> FALSE]

onRouteChangeComplete_AnyData(st, i, data) ==
    IF data.kind # "none"
    THEN [st EXCEPT !.loads = @ \cup {[call |-> i, data |-> data]}]
    ELSE st

\* ---- link.tsx 276-290: the routeChangeComplete handler registered by
\* setupRouterEvents, up to its await.  data.page of undefined (popstate
\* passes no data) throws, and loadPageComponent finds no route for the
\* missing page of an error body: both are caught and nothing is loaded.
onRouteChangeComplete(st, i, data) ==
    IF data.kind = "page"
    THEN [st EXCEPT !.loads = @ \cup {[call |-> i, data |-> data]}]
    ELSE st

\* a handler that throws when it is called
Thrower == "thrower"

\* ---- router.tsx 224: l.handler(...args); threw tells that the handler has
\* thrown
Handle(st, handler, i, data) ==
    CASE handler = "renderHandler" -> onRouteChangeComplete(st, i, data)
      [] handler = Thrower -> [st EXCEPT !.threw = TRUE]
      [] OTHER -> st

RECURSIVE RunHandlers(_, _, _, _)
\* ---- router.tsx 224: forEach; an exception of a handler ends it
RunHandlers(st, hs, i, data) ==
    IF hs = <<>> \/ st.threw THEN st
    ELSE RunHandlers(Handle(st, Head(hs).handler, i, data), Tail(hs), i, data)

\* ---- router.tsx 223-225: Router.emit
emit(st, event, i, data) ==
    RunHandlers(st, SelectSeq(listeners, LAMBDA l : l.event = event), i, data)

Step(st, i, name) == [st EXCEPT !.calls[i].trace = Append(@, name)]

\* ---- router.tsx 80-94: Router.fetchPageData, the branch it takes
fetchPageData_NoCoalescing(url, force) ==
    IF ~force /\ cache[url] # NoData THEN "cache" ELSE "network"

fetchPageData_IgnoresCache(url, force) ==
    IF prefetchPromises[url] # 0 THEN "pending" ELSE "network"

fetchPageData_ForceReadsCache(url, force) ==
    IF cache[url] # NoData THEN "cache"
    ELSE IF prefetchPromises[url] # 0 THEN "pending"
    ELSE "network"

fetchPageData(url, force) ==
    IF ~force /\ cache[url] # NoData THEN "cache"
    ELSE IF prefetchPromises[url] # 0 THEN "pending"
    ELSE "network"

\* ---- router.tsx 147-150 and 173-176: the catch block of push / replace
NavRejected_UpdatesLocation(st, i) ==
    LET s1 == emit(Step(st, i, "routeChangeError"), "routeChangeError", i, NoData)
    IN  [s1 EXCEPT !.calls[i].settled = "fulfilled",
                   !.pathname = st.calls[i].url]

\* when a routeChangeError handler throws, the promise of push / replace
\* rejects
NavRejected(st, i) ==
    LET s1 == emit(Step(st, i, "routeChangeError"), "routeChangeError", i, NoData)
    IN  [s1 EXCEPT !.calls[i].settled = IF s1.threw THEN "rejected" ELSE "fulfilled",
                   !.threw = FALSE]

\* ---- router.tsx 139-146 and 167-172: push / replace after the await
NavResolved_EmitsFirst(st, i, data) ==
    LET url == st.calls[i].url
        s1 == emit([Step(st, i, "routeChangeComplete")
                       EXCEPT !.calls[i].payload = data],
                   "routeChangeComplete", i, data)
        s2 == [Step(s1, i, "pathname")
                  EXCEPT !.pathname = url, !.query = QueryOf(data)]
        s3 == IF st.calls[i].op = "push"
              THEN [Step(s2, i, "pushState")
                       EXCEPT !.history = Append(SubSeq(@, 1, s2.hidx), url),
                              !.hidx = @ + 1]
              ELSE [Step(s2, i, "replaceState")
                       EXCEPT !.history[s2.hidx] = url]
    IN  [s3 EXCEPT !.calls[i].settled = "fulfilled"]

NavResolved(st, i, data) ==
    LET url == st.calls[i].url
        s1 == [Step(st, i, "pathname")
                  EXCEPT !.pathname = url, !.query = QueryOf(data)]
        s2 == IF st.calls[i].op = "push"
              THEN [Step(s1, i, "pushState")
                       EXCEPT !.history = Append(SubSeq(@, 1, s1.hidx), url),
                              !.hidx = @ + 1]
              ELSE [Step(s1, i, "replaceState")
                       EXCEPT !.history[s1.hidx] = url]
        s3 == emit([Step(s2, i, "routeChangeComplete")
                       EXCEPT !.calls[i].payload = data],
                   "routeChangeComplete", i, data)
    IN  \* 147-150: what a routeChangeComplete handler throws is caught too
        IF s3.threw THEN NavRejected([s3 EXCEPT !.threw = FALSE], i)
        ELSE [s3 EXCEPT !.calls[i].settled = "fulfilled"]

\* Deliver with a prefetch that lets the failure of its fetch through
Deliver_PrefetchRejects(st, i, ok, data) ==
    LET c  == st.calls[i]
        s0 == [st EXCEPT !.calls[i].outcome = IF ok THEN "data" ELSE "error",
                         !.calls[i].result = IF ok THEN data ELSE NoData,
                         !.fetchOrder = IF ok /\ c.op \in Nav
                                        THEN Append(@, i) ELSE @]
    IN  CASE c.op \in Nav ->
               IF ok THEN NavResolved(s0, i, data) ELSE NavRejected(s0, i)
          [] OTHER ->
               [s0 EXCEPT !.calls[i].settled =
                              IF ok THEN "fulfilled" ELSE "rejected"]

\* The awaited fetchPageData promise of call i settles: the caller's
\* continuation runs (push 136-150, replace 165-176, prefetch 193-197, or
\* the direct caller of fetchPageData, who gets the value or the error).
Deliver(st, i, ok, data) ==
    LET c  == st.calls[i]
        s0 == [st EXCEPT !.calls[i].outcome = IF ok THEN "data" ELSE "error",
                         !.calls[i].result = IF ok THEN data ELSE NoData,
                         !.fetchOrder = IF ok /\ c.op \in Nav
                                        THEN Append(@, i) ELSE @]
    IN  CASE c.op \in Nav ->
               IF ok THEN NavResolved(s0, i, data) ELSE NavRejected(s0, i)
          [] c.op = "prefetch" ->
               [s0 EXCEPT !.calls[i].settled = "fulfilled"]
          [] OTHER ->
               [s0 EXCEPT !.calls[i].settled =
                              IF ok THEN "fulfilled" ELSE "rejected"]

RECURSIVE DeliverAll(_, _, _, _)
DeliverAll(st, waiters, ok, data) ==
    IF waiters = <<>> THEN st
    ELSE DeliverAll(Deliver(st, Head(waiters), ok, data), Tail(waiters), ok, data)

\* The calls awaiting request n of url, in the order they began to await.
RECURSIVE WaitersFrom(_, _, _)
WaitersFrom(i, url, n) ==
    IF i > Len(calls) THEN <<>>
    ELSE (IF calls[i].url = url /\ calls[i].req = n /\ calls[i].settled = "pending"
          THEN <<i>> ELSE <<>>) \o WaitersFrom(i + 1, url, n)

Apply(st) ==
    /\ pathname' = st.pathname
    /\ query' = st.query
    /\ history' = st.history
    /\ hidx' = st.hidx
    /\ calls' = st.calls
    /\ loads' = st.loads
    /\ fetchOrder' = st.fetchOrder

\* The record of a call.  req is the request it awaits (0: none, it was
\* served from the cache).  branch, during, cachedAt, okBefore and afterFail
\* record what held when the call was made: the branch fetchPageData took,
\* the request for url then in flight (0: none), the cache entry for url,
\* whether a fetch for url had already delivered data, and whether the last
\* request for url had failed with no call for url since.
NewCall(op, url, force, branch) ==
    [op |-> op, url |-> url, force |-> force,
     req |-> CASE branch \in {"cache", "none"} -> 0
               [] branch = "pending" -> prefetchPromises[url]
               [] OTHER -> netCalls[url] + 1,
     settled |-> "pending", outcome |-> "none", result |-> NoData,
     payload |-> NoData,
     trace |-> <<>>,
     branch |-> branch,
     during |-> IF \E r \in inflight : r.url = url
                THEN (CHOOSE r \in inflight : r.url = url).n ELSE 0,
     cachedAt |-> cache[url],
     okBefore |-> \E j \in DOMAIN calls :
                     calls[j].url = url /\ calls[j].outcome = "data",
     afterFail |-> failedSince[url],
     with |-> {j \in DOMAIN calls : calls[j].op \in Nav /\ calls[j].settled = "pending"}]

\* ---- router.tsx 96-121: the request fetchPageData starts on its third branch
StartRequest(url, branch) ==
    IF branch = "network"
    THEN /\ inflight' = inflight \cup {[url |-> url, n |-> netCalls[url] + 1]}
         /\ prefetchPromises' = [prefetchPromises EXCEPT ![url] = netCalls[url] + 1]
         /\ netCalls' = [netCalls EXCEPT ![url] = @ + 1]
    ELSE UNCHANGED <<inflight, prefetchPromises, netCalls>>

\* One call of push / replace / prefetch / fetchPageData, up to its await;
\* a cache hit resolves in the same microtask checkpoint.
Call(op, url, force) ==
    /\ Len(calls) < MaxCalls
    /\ op \in Nav =>
          Cardinality({j \in DOMAIN calls : calls[j].op \in Nav}) < MaxNavs
    \* Link's handlers and useRouter exist once hydrate has mounted the page
    /\ hydratePc \in {"setup", "done"}
    /\ LET \* a routeChangeStart handler that throws takes push / replace to
           \* their catch block before fetchPageData is called
           startThrows == /\ op \in Nav
                          /\ \E j \in DOMAIN listeners :
                                 /\ listeners[j].event = "routeChangeStart"
                                 /\ listeners[j].handler = Thrower
           branch == IF startThrows THEN "none" ELSE fetchPageData(url, force)
           i   == Len(calls) + 1
           st0 == [ClientState EXCEPT
                      !.calls = Append(@, NewCall(op, url, force, branch))]
           st1 == IF op \in Nav
                  THEN emit(Step(st0, i, "routeChangeStart"),
                            "routeChangeStart", i, NoData)
                  ELSE st0
           st2 == IF st1.threw THEN NavRejected([st1 EXCEPT !.threw = FALSE], i)
                  ELSE Step(st1, i, "fetchPageData")
           st3 == IF branch = "cache"
                  THEN Deliver(st2, i, TRUE, cache[url])
                  ELSE st2
       IN  /\ Apply(st3)
           /\ StartRequest(url, branch)
    /\ failedSince' = [failedSince EXCEPT ![url] = FALSE]
    /\ UNCHANGED <<listeners, cache, hydratePc, globalRoot, rootsCreated,
                   rendered, renderOrder>>
    /\ UNCHANGED <<buildVars, dispatchVars, serveVars, registryVars>>

\* ---- router.tsx 128-151
Push(url) == Call("push", url, FALSE)
\* ---- router.tsx 157-177
Replace(url) == Call("replace", url, FALSE)
\* ---- router.tsx 189-198
Prefetch(url) == Call("prefetch", url, FALSE)
\* ---- router.tsx 80-122, called directly
FetchPageData(url, force) == Call("fetchPageData", url, force)

\* ---- router.tsx 100-111: the .then callback
onFetched(url, data) ==
    /\ cache' = [cache EXCEPT ![url] = data]
    /\ prefetchPromises' = [prefetchPromises EXCEPT ![url] = 0]

\* ---- router.tsx 112-116: the .catch callback
onFetchFailed_KeepsPending(url) ==
    UNCHANGED <<cache, prefetchPromises>>

onFetchFailed_DropsCache(url) ==
    /\ prefetchPromises' = [prefetchPromises EXCEPT ![url] = 0]
    /\ cache' = [cache EXCEPT ![url] = NoData]

onFetchFailed(url) ==
    /\ prefetchPromises' = [prefetchPromises EXCEPT ![url] = 0]
    /\ UNCHANGED cache

\* The server answers request r with a JSON body: page data, or the error
\* body of a 404 / 500 answer (fetch resolves for every HTTP status).
FetchResolve(r, kind) ==
    /\ r \in inflight
    /\ LET data == IF kind = "page" THEN PageData(r.url, r.n)
                                    ELSE ErrorBody(r.url, r.n)
       IN  /\ onFetched(r.url, data)
           /\ Apply(DeliverAll(ClientState, WaitersFrom(1, r.url, r.n), TRUE, data))
    /\ inflight' = inflight \ {r}
    /\ UNCHANGED <<listeners, netCalls, failedSince, hydratePc, globalRoot,
                   rootsCreated, rendered, renderOrder>>
    /\ UNCHANGED <<buildVars, dispatchVars, serveVars, registryVars>>

\* The request fails: network error, or a body that is not JSON.
FetchReject(r) ==
    /\ r \in inflight
    /\ onFetchFailed(r.url)
    /\ Apply(DeliverAll(ClientState, WaitersFrom(1, r.url, r.n), FALSE, NoData))
    /\ inflight' = inflight \ {r}
    /\ failedSince' = [failedSince EXCEPT ![r.url] = TRUE]
    /\ UNCHANGED <<listeners, netCalls, hydratePc, globalRoot,
                   rootsCreated, rendered, renderOrder>>
    /\ UNCHANGED <<buildVars, dispatchVars, serveVars, registryVars>>

\* ---- router.tsx 45-49: the popstate listener (browser back / forward)
Popstate(d) ==
    /\ hidx + d \in 1..Len(history)
    /\ LET st0 == [ClientState EXCEPT !.hidx = hidx + d,
                                      !.pathname = history[hidx + d],
                                      !.query = EmptyQuery]
       IN  Apply(emit(st0, "routeChangeComplete", 0, NoData))
    /\ UNCHANGED <<listeners, cache, prefetchPromises, inflight, netCalls,
                   failedSince, hydratePc, globalRoot, rootsCreated, rendered,
                   renderOrder>>
    /\ UNCHANGED <<buildVars, dispatchVars, serveVars, registryVars>>


\* ---- link.tsx 206-233: hydrate reads __NEXT_DATA__ and its manifest, then
\* awaits loadPageComponent for the initial page
HydrateRead(found) ==
    /\ hydratePc = "start"
    /\ hydratePc' = IF found THEN "loading" ELSE "aborted"
    /\ UNCHANGED <<pathname, query, listeners, cache, prefetchPromises,
                   history, hidx, inflight, netCalls, calls, failedSince,
                   globalRoot, rootsCreated, rendered, loads, fetchOrder,
                   renderOrder>>
    /\ UNCHANGED <<buildVars, dispatchVars, serveVars, registryVars>>

\* ---- link.tsx 254: hydrateRoot creates the root
hydrateRoot ==
    /\ rootsCreated' = rootsCreated + 1
    /\ globalRoot' = rootsCreated + 1
    /\ rendered' = [root |-> rootsCreated + 1, data |-> PageData(history[1], 0)]
    /\ hydratePc' = "setup"

\* ---- link.tsx 227-262: the initial component has loaded (or failed to);
\* the root element is looked up and hydrateRoot is called in a try block,
\* after which setupRouterEvents is called whether or not it threw
HydrateMount(outcome) ==
    /\ hydratePc = "mount" \/ hydratePc = "loading"
    /\ CASE outcome = "loadFailed" ->
              /\ hydratePc = "loading"
              /\ hydratePc' = "aborted"
              /\ UNCHANGED <<globalRoot, rootsCreated, rendered>>
         [] outcome = "noRootElement" ->
              /\ hydratePc' = "aborted"
              /\ UNCHANGED <<globalRoot, rootsCreated, rendered>>
         [] outcome = "hydrateThrows" ->
              /\ hydratePc' = "setup"
              /\ UNCHANGED <<globalRoot, rootsCreated, rendered>>
         [] OTHER -> hydrateRoot
    /\ UNCHANGED <<pathname, query, listeners, cache, prefetchPromises,
                   history, hidx, inflight, netCalls, calls, failedSince,
                   loads, fetchOrder, renderOrder>>
    /\ UNCHANGED <<buildVars, dispatchVars, serveVars, registryVars>>

\* ---- link.tsx 269-291: setupRouterEvents registers the handler
SetupRouterEvents ==
    /\ hydratePc = "setup"
    /\ hydratePc' = "done"
    /\ listeners' = Append(listeners,
                           [event |-> "routeChangeComplete", handler |-> "renderHandler"])
    /\ UNCHANGED <<pathname, query, cache, prefetchPromises, history, hidx,
                   inflight, netCalls, calls, failedSince, globalRoot,
                   rootsCreated, rendered, loads, fetchOrder, renderOrder>>
    /\ UNCHANGED <<buildVars, dispatchVars, serveVars, registryVars>>

\* ---- link.tsx 186-200: renderPage
renderPage_CreatesRoot(l) ==
    /\ rootsCreated' = rootsCreated + 1
    /\ globalRoot' = rootsCreated + 1
    /\ rendered' = [root |-> rootsCreated + 1, data |-> l.data]
    /\ renderOrder' = Append(renderOrder, l.call)

renderPage(l) ==
    IF globalRoot = 0
    THEN UNCHANGED <<rendered, renderOrder, rootsCreated, globalRoot>>
    ELSE /\ rendered' = [root |-> globalRoot, data |-> l.data]
         /\ renderOrder' = Append(renderOrder, l.call)
         /\ UNCHANGED <<rootsCreated, globalRoot>>

\* ---- link.tsx 281-286: the handler's loadPageComponent has loaded the
\* component and the handler goes on to renderPage
LoadDone(l) ==
    /\ l \in loads
    /\ loads' = loads \ {l}
    /\ renderPage(l)
    /\ UNCHANGED <<pathname, query, listeners, cache, prefetchPromises,
                   history, hidx, inflight, netCalls, calls, failedSince,
                   hydratePc, fetchOrder>>
    /\ UNCHANGED <<buildVars, dispatchVars, serveVars, registryVars>>

\* ---- link.tsx 170-177, 287-289: the loader is missing or fails; caught
LoadFail(l) ==
    /\ l \in loads
    /\ loads' = loads \ {l}
    /\ UNCHANGED <<pathname, query, listeners, cache, prefetchPromises,
                   history, hidx, inflight, netCalls, calls, failedSince,
                   hydratePc, globalRoot, rootsCreated, rendered, fetchOrder,
                   renderOrder>>
    /\ UNCHANGED <<buildVars, dispatchVars, serveVars, registryVars>>

(***************************************************************************)
(* BUILD                                                                   *)
(***************************************************************************)
\* ---- strings: the regular expressions of the build, character by
\* character
Char(s, i) == SubSeq(s, i, i)

From(s, i) == SubSeq(s, i, Len(s))

RECURSIVE IndexFrom(_, _, _)
\* the first position >= i of s that holds character c, or 0
IndexFrom(s, c, i) ==
    IF i > Len(s) THEN 0
    ELSE IF Char(s, i) = c THEN i
    ELSE IndexFrom(s, c, i + 1)

RECURSIVE ReplaceAll(_, _, _)
\* String.prototype.replace(new RegExp(pat, 'g'), rep), pat a literal
ReplaceAll(s, pat, rep) ==
    IF Len(pat) = 0 \/ Len(s) < Len(pat) THEN s
    ELSE IF SubSeq(s, 1, Len(pat)) = pat
         THEN rep \o ReplaceAll(From(s, Len(pat) + 1), pat, rep)
         ELSE Char(s, 1) \o ReplaceAll(From(s, 2), pat, rep)

RECURSIVE ConvertBrackets(_)
\* generate-routes.js 444, 447: replace(/\[(.+?)\]/g, ':$1')
ConvertBrackets(s) ==
    IF Len(s) = 0 THEN s
    ELSE LET close == IF Char(s, 1) = "[" THEN IndexFrom(s, "]", 3) ELSE 0
         IN IF close # 0
            THEN (":" \o SubSeq(s, 2, close - 1))
                     \o ConvertBrackets(From(s, close + 1))
            ELSE Char(s, 1) \o ConvertBrackets(From(s, 2))

\* generate-routes.js 399: /\[.*\]/.test(fullRelativePath)
HasBrackets(s) ==
    \E i \in 1..Len(s) : Char(s, i) = "[" /\ IndexFrom(s, "]", i + 1) # 0

RECURSIVE LeadingDots(_, _)
\* the number of '.' characters of s from position i on
LeadingDots(s, i) ==
    IF i <= Len(s) /\ Char(s, i) = "." THEN 1 + LeadingDots(s, i + 1) ELSE 0

RECURSIVE ParamMatch(_, _)
\* /\[\.{0,3}(.+?)\]/ at a '[' in position 1 of s, with d dots taken by
\* \.{0,3}, backtracking to fewer dots: <<start of the name, position of ']'>>
\* or <<0, 0>> when there is no match
ParamMatch(s, d) ==
    LET close == IndexFrom(s, "]", d + 3)
    IN  IF close # 0 THEN <<d + 2, close>>
        ELSE IF d = 0 THEN <<0, 0>>
        ELSE ParamMatch(s, d - 1)

RECURSIVE extractParamNames(_)
\* generate-routes.js 467-470
extractParamNames(filePath) ==
    IF Len(filePath) = 0 THEN <<>>
    ELSE LET dots == LeadingDots(filePath, 2)
             m == IF Char(filePath, 1) = "["
                  THEN ParamMatch(filePath, IF dots > 3 THEN 3 ELSE dots)
                  ELSE <<0, 0>>
         IN IF m[2] # 0
            THEN <<SubSeq(filePath, m[1], m[2] - 1)>>
                     \o extractParamNames(From(filePath, m[2] + 1))
            ELSE extractParamNames(From(filePath, 2))

\* generate-routes.js 437-453
generateRoutePath(basePath, fileName) ==
    IF fileName = "index"
    THEN IF basePath = "" THEN "/" ELSE "/" \o basePath
    ELSE LET convertedBasePath == ConvertBrackets(basePath)
             routeSegment == ConvertBrackets(fileName)
         IN "/" \o (IF convertedBasePath = "" THEN routeSegment
                    ELSE convertedBasePath \o "/" \o routeSegment)

\* ---- generate-routes.js 53-63: pathToRegex
\* the characters of /[.*+?^${}()|[\]\\]/
SpecialChars == {".", "*", "+", "?", "^", "$", "{", "}", "(", ")", "|", "[", "]", "\\"}

RECURSIVE EscapeSpecial(_)
\* generate-routes.js 55: replace(/[.*+?^${}()|[\]\\]/g, '\\$&')
EscapeSpecial(s) ==
    IF Len(s) = 0 THEN s
    ELSE (IF Char(s, 1) \in SpecialChars THEN "\\" \o Char(s, 1) ELSE Char(s, 1))
             \o EscapeSpecial(From(s, 2))

RECURSIVE SegmentEnd(_, _)
\* the last position of the run of non-'/' characters of s that starts at
\* position i; i - 1 when there is none
SegmentEnd(s, i) ==
    IF i <= Len(s) /\ Char(s, i) # "/" THEN SegmentEnd(s, i + 1) ELSE i - 1

RECURSIVE ReplaceParamSegments(_, _)
\* replace(/:([^/]+)/g, rep) and replace(/:[^/]+/g, rep): a ':' and the
\* longest run of at least one non-'/' character after it
ReplaceParamSegments(s, rep) ==
    IF Len(s) = 0 THEN s
    ELSE LET end == IF Char(s, 1) = ":" THEN SegmentEnd(s, 2) ELSE 0
         IN IF end >= 2
            THEN rep \o ReplaceParamSegments(From(s, end + 1), rep)
            ELSE Char(s, 1) \o ReplaceParamSegments(From(s, 2), rep)

pathToRegex(routePath) ==
    "^" \o ReplaceParamSegments(EscapeSpecial(routePath), "([^/]+)") \o "$"

\* ---- new RegExp(source): the syntax the patterns of the server and of the
\* client are made of.  A pattern is a sequence of items; an item matches one
\* character, or one or more when it is followed by '+', and an item in
\* parentheses is a capture group.
Item(kind, chars, plus, group) ==
    [kind |-> kind, chars |-> chars, plus |-> plus, group |-> group]

\* the item at the head of the source s and the number of characters it
\* takes: \c, [...] or [^...], . or a literal character, with a '+' after it
\* if there is one
AtomAt(s) ==
    LET c == Char(s, 1)
        close == IndexFrom(s, "]", 3)
        a == IF c = "\\" /\ Len(s) >= 2
             THEN <<Item("lit", Char(s, 2), FALSE, FALSE), 2>>
             ELSE IF c = "[" /\ close # 0
             THEN IF Char(s, 2) = "^"
                  THEN <<Item("not", SubSeq(s, 3, close - 1), FALSE, FALSE), close>>
                  ELSE <<Item("in", SubSeq(s, 2, close - 1), FALSE, FALSE), close>>
             ELSE IF c = "."
             THEN <<Item("any", "", FALSE, FALSE), 1>>
             ELSE <<Item("lit", c, FALSE, FALSE), 1>>
    IN  IF Len(s) > a[2] /\ Char(s, a[2] + 1) = "+"
        THEN <<[a[1] EXCEPT !.plus = TRUE], a[2] + 1>>
        ELSE a

RECURSIVE RegExpCompile(_)
\* the items of the source s; '(' item ')' is the only group the patterns
\* hold
RegExpCompile(s) ==
    IF Len(s) = 0 THEN <<>>
    ELSE IF Char(s, 1) = "(" /\ Len(s) >= 3
              /\ AtomAt(From(s, 2))[2] + 2 <= Len(s)
              /\ Char(s, AtomAt(From(s, 2))[2] + 2) = ")"
         THEN LET a == AtomAt(From(s, 2))
              IN <<[a[1] EXCEPT !.group = TRUE]>> \o RegExpCompile(From(s, a[2] + 3))
         ELSE LET a == AtomAt(s)
              IN <<a[1]>> \o RegExpCompile(From(s, a[2] + 1))

\* the character c is one the item takes ('.' takes all but line ends, which
\* no input holds)
Takes(item, c) ==
    CASE item.kind = "lit" -> c = item.chars
      [] item.kind = "any" -> TRUE
      [] item.kind = "in"  -> IndexFrom(item.chars, c, 1) # 0
      [] item.kind = "not" -> IndexFrom(item.chars, c, 1) = 0

RECURSIVE Run(_, _, _)
\* the number of characters of s from position i on that the item takes
Run(item, s, i) ==
    IF i <= Len(s) /\ Takes(item, Char(s, i)) THEN 1 + Run(item, s, i + 1) ELSE 0

NoRegExpMatch == [matched |-> FALSE, groups |-> <<>>]

RECURSIVE MatchItems(_, _, _, _)
RECURSIVE MatchPlus(_, _, _, _, _)
\* the items from the k-th on against the whole of s from position i on, as
\* the backtracking matcher does it: a '+' item takes the longest run first
MatchItems(items, k, s, i) ==
    IF k > Len(items)
    THEN IF i = Len(s) + 1 THEN [matched |-> TRUE, groups |-> <<>>] ELSE NoRegExpMatch
    ELSE IF items[k].plus
         THEN MatchPlus(items, k, s, i, Run(items[k], s, i))
         ELSE IF i <= Len(s) /\ Takes(items[k], Char(s, i))
              THEN LET rest == MatchItems(items, k + 1, s, i + 1)
                   IN  IF rest.matched /\ items[k].group
                       THEN [rest EXCEPT !.groups = <<Char(s, i)>> \o @]
                       ELSE rest
              ELSE NoRegExpMatch

\* the '+' item k takes n characters, or fewer if the rest does not match
MatchPlus(items, k, s, i, n) ==
    IF n < 1 THEN NoRegExpMatch
    ELSE LET rest == MatchItems(items, k + 1, s, i + n)
         IN  IF rest.matched
             THEN IF items[k].group
                  THEN [rest EXCEPT !.groups = <<SubSeq(s, i, i + n - 1)>> \o @]
                  ELSE rest
             ELSE MatchPlus(items, k, s, i, n - 1)

\* str.match(new RegExp(source)) and regex.test(str) for a source anchored
\* with ^ and $, as every pattern of the server and of the client is
RegExpMatch(source, str) ==
    MatchItems(RegExpCompile(SubSeq(source, 2, Len(source) - 1)), 1, str, 1)

\* ---- the pages directory: a page file is the directory it is in (relative
\* to pages/), its name and its extension
PageFile(base, name, ext) == [base |-> base, name |-> name, ext |-> ext]

\* The page files a pages directory can hold, in the order scanPages meets
\* them: readdirSync lists a directory sorted by name ('[' sorts before the
\* lower-case letters) and scan descends into a directory where it meets it.
PageFiles ==
    << PageFile("", "about", ".jsx"),
       PageFile("blog/[category]", "[id]", ".jsx"),
       PageFile("blog", "[id]", ".jsx"),
       PageFile("docs", "[...slug]", ".jsx"),
       PageFile("", "index", ".jsx") >>

\* generate-routes.js 394-415 and 15-33: the page record scanPages pushes for
\* a page file and the route generateRoutes makes of it
RouteOf(f) ==
    LET file == f.name \o f.ext
        fullRelativePath == IF f.base # "" THEN f.base \o "/" \o file ELSE file
        isDynamic == HasBrackets(fullRelativePath)
    IN  [ path          |-> generateRoutePath(f.base, f.name),
          componentPath |-> fullRelativePath,
          pattern       |-> pathToRegex(generateRoutePath(f.base, f.name)),
          paramNames    |-> IF isDynamic THEN extractParamNames(fullRelativePath)
                            ELSE <<>>,
          isDynamic     |-> isDynamic,
          renderType    |-> "null" ]

\* generate-routes.js 361-421, 14-40: the routes of a directory listing, in
\* the order readdirSync lists the files
generateRoutes(listing) == [i \in DOMAIN listing |-> RouteOf(listing[i])]

RECURSIVE Listing(_, _)
\* the page files of PageFiles at the positions S, from position i on
Listing(S, i) ==
    IF i > Len(PageFiles) THEN <<>>
    ELSE (IF i \in S THEN <<PageFiles[i]>> ELSE <<>>) \o Listing(S, i + 1)

\* the pages directories of at most MaxRoutes page files
Listings ==
    { Listing(S, 1) : S \in {T \in SUBSET DOMAIN PageFiles : Cardinality(T) <= MaxRoutes} }

\* ---- page modules
\* params objects are their Object.entries: <<key, value>> pairs in order
NoParams == <<>>

Values == <<"1", "2", "3", "4">>

\* the k-th parameter tuple a getStaticPaths of the route returns
TupleOf(route, k) ==
    [j \in DOMAIN route.paramNames |-> <<route.paramNames[j], Values[k]>>]

NoFail == [at |-> "none", k |-> 0]

FailAt(at, k) == [at |-> at, k |-> k]

\* A page module: whether import() of it succeeds, the capabilities it
\* exports, the tuples its getStaticPaths returns, whether its getStaticProps
\* returns props, where generating it throws (getStaticPaths, or
\* getStaticProps / the renderer at the k-th page), and what is thrown there:
\* an Error, or null / undefined (throw undefined, Promise.reject()).
Module(imports, gsp, gspaths, gssp, paths, props, fail) ==
    [ loads |-> imports, getStaticProps |-> gsp, getStaticPaths |-> gspaths,
      getServerSideProps |-> gssp, paths |-> paths, returnsProps |-> props,
      fail |-> fail, throws |-> "Error" ]

\* the module whose capability throws null / undefined where m's throws an
\* Error
Nullish(m) == [m EXCEPT !.throws = "nullish"]

\* the places where generating n pages of a module can throw
FailuresOf(gsp, n) ==
    {FailAt("render", k) : k \in 1..n}
        \cup (IF gsp THEN {FailAt("props", k) : k \in 1..n} ELSE {})

\* the modules without getServerSideProps that generate n pages from the
\* tuples paths: they complete, or throw at one of the pages
Generating(gsp, gspaths, paths, n) ==
    { Module(TRUE, gsp, gspaths, FALSE, paths, p, NoFail) :
        p \in IF gsp THEN BOOLEAN ELSE {TRUE} }
    \cup { Module(TRUE, gsp, gspaths, FALSE, paths, TRUE, f) : f \in FailuresOf(gsp, n) }

\* the modules of a page file of the route that throw Errors, if they
\* throw; what generation never looks at is left at its default
ErrorModulesOf(route) ==
    {Module(FALSE, FALSE, FALSE, FALSE, <<>>, TRUE, NoFail)}
    \cup { Module(TRUE, gsp, gspaths, TRUE, <<>>, TRUE, NoFail) :
             gsp \in BOOLEAN, gspaths \in BOOLEAN }
    \cup (IF route.isDynamic
          THEN { Module(TRUE, gsp, FALSE, FALSE, <<>>, TRUE, NoFail) :
                   gsp \in BOOLEAN }
               \cup {Module(TRUE, FALSE, TRUE, FALSE, <<>>, TRUE, FailAt("paths", 0))}
               \cup UNION { Generating(gsp, TRUE, [k \in 1..n |-> TupleOf(route, k)], n) :
                              gsp \in BOOLEAN, n \in 0..MaxTuples }
          ELSE UNION { Generating(gsp, FALSE, <<>>, 1) : gsp \in BOOLEAN }
               \cup { Module(TRUE, gsp, TRUE, FALSE, <<>>, TRUE, NoFail) :
                        gsp \in BOOLEAN })

\* the modules a page file of the route can hold: a capability that throws
\* may also throw null / undefined
ModulesOf(route) ==
    ErrorModulesOf(route)
        \cup { Nullish(m) : m \in { x \in ErrorModulesOf(route) :
                                    x.fail.at \in {"paths", "props"} } }

\* ---- props
EmptyProps == [from |-> "empty", component |-> "", params |-> NoParams]

\* what the module's getStaticProps returns for a context: { props } or an
\* object without props
getStaticProps(route, m, params) ==
    IF m.returnsProps
    THEN [from |-> "getStaticProps", component |-> route.componentPath,
          params |-> params]
    ELSE EmptyProps

\* ---- generate-routes.js 332-347
RECURSIVE ReplaceParams(_, _, _)
ReplaceParams(outputPath, params, j) ==
    IF j > Len(params) THEN outputPath
    ELSE ReplaceParams(ReplaceAll(outputPath, ":" \o params[j][1], params[j][2]),
                       params, j + 1)

getOutputPath(routePath, params) ==
    LET outputPath == ReplaceParams(routePath, params, 1)
    IN  IF outputPath = "/" THEN "/index" ELSE outputPath

\* ---- render-ssg.ts 72-86 (src/unnamed/part_006)
\* String.prototype.replace(pat, rep), pat a string: the first occurrence
RECURSIVE ReplaceFirst(_, _, _)
ReplaceFirst(s, pat, rep) ==
    IF Len(pat) = 0 \/ Len(s) < Len(pat) THEN s
    ELSE IF SubSeq(s, 1, Len(pat)) = pat
         THEN rep \o From(s, Len(pat) + 1)
         ELSE Char(s, 1) \o ReplaceFirst(From(s, 2), pat, rep)

RECURSIVE ReplaceParamsOnce(_, _, _)
ReplaceParamsOnce(filePath, params, j) ==
    IF j > Len(params) THEN filePath
    ELSE ReplaceParamsOnce(ReplaceFirst(filePath, ":" \o params[j][1], params[j][2]),
                           params, j + 1)

getStaticFilePath(routePath, params) ==
    LET filePath == ReplaceParamsOnce(routePath, params, 1)
    IN  IF filePath = "/" THEN "/index" ELSE filePath

\* ---- artifacts and invocations
\* a file written below the static output directory
Artifact(i, outputPath, ext, params, props) ==
    [ file |-> outputPath \o ext, route |-> i, path |-> outputPath,
      ext |-> ext, params |-> params, props |-> props ]

\* a call of a capability of route i's module; hasParams tells { params }
\* from {}
Invocation(i, fn, hasParams, params) ==
    [route |-> i, fn |-> fn, hasParams |-> hasParams, params |-> params]

\* ---- generate-routes.js 214-272: renderSinglePage for the k-th page of
\* route i; passed tells whether the caller gave props
renderSinglePage(i, route, m, params, passed, props, k) ==
    LET callsProps == ~passed /\ m.getStaticProps
        pageProps == IF passed THEN props
                     ELSE IF m.getStaticProps THEN getStaticProps(route, m, params)
                     ELSE EmptyProps
        outputPath == getOutputPath(route.path, params)
        cs == IF callsProps
              THEN <<Invocation(i, "getStaticProps", TRUE, params)>>
              ELSE <<>>
    IN  IF \/ callsProps /\ m.fail = FailAt("props", k)
           \/ m.fail = FailAt("render", k)
        THEN [threw |-> TRUE, writes |-> <<>>, calls |-> cs]
        ELSE [threw |-> FALSE,
              writes |-> << Artifact(i, outputPath, ".html", params, pageProps),
                            Artifact(i, outputPath, ".json", params, pageProps) >>,
              calls |-> cs]

RECURSIVE renderPaths(_, _, _, _, _)
\* generate-routes.js 162-172: the loop over paths, from the k-th on, after
\* the writes and calls of acc
renderPaths(i, route, m, k, acc) ==
    IF k > Len(m.paths) THEN acc
    ELSE LET one == renderSinglePage(i, route, m, m.paths[k], FALSE, EmptyProps, k)
             sum == [threw |-> one.threw,
                     writes |-> acc.writes \o one.writes,
                     calls |-> acc.calls \o one.calls]
         IN IF one.threw THEN sum ELSE renderPaths(i, route, m, k + 1, sum)

\* ---- RenderResult
Declined(reason) ==
    [success |-> FALSE, reason |-> reason, count |-> 0, type |-> "", error |-> FALSE]

Failed == [success |-> FALSE, reason |-> "", count |-> 0, type |-> "", error |-> TRUE]

Generated(count, type) ==
    [success |-> TRUE, reason |-> "", count |-> count, type |-> type, error |-> FALSE]

\* renderStaticPage returns nothing: its promise rejects
NoResult ==
    [success |-> FALSE, reason |-> "", count |-> 0, type |-> "", error |-> FALSE]

Outcome(result, writes, cs) == [result |-> result, writes |-> writes, calls |-> cs]

\* generate-routes.js 201-204: the catch block reads error.message: of an
\* Error it returns the failed result; of null / undefined the read throws a
\* TypeError out of the catch block, and renderStaticPage rejects
Caught(m, writes, cs) ==
    IF m.throws = "nullish" THEN Outcome(NoResult, writes, cs)
    ELSE Outcome(Failed, writes, cs)

renderStaticPage_PathsFirst(i, route, m) ==
    IF route.isDynamic /\ m.loads /\ m.getStaticPaths
    THEN LET cs == <<Invocation(i, "getStaticPaths", FALSE, NoParams)>>
             run == renderPaths(i, route, m, 1,
                                [threw |-> FALSE, writes |-> <<>>, calls |-> cs])
         IN Outcome(Generated(Len(m.paths), "ssg-dynamic"), run.writes, run.calls)
    ELSE IF m.loads /\ m.getServerSideProps
    THEN Outcome(Declined("has-getServerSideProps"), <<>>, <<>>)
    ELSE Outcome(Failed, <<>>, <<>>)

renderStaticPage_OnePage(i, route, m) ==
    LET one == renderSinglePage(i, route, m, NoParams, TRUE, EmptyProps, 1)
    IN  Outcome(Generated(1, "ssg-pure"), one.writes, <<>>)

renderStaticPage_NeedsProps(i, route, m) ==
    IF m.loads /\ ~m.getServerSideProps /\ ~route.isDynamic
              /\ m.getStaticProps /\ m.fail = NoFail
    THEN LET cs == <<Invocation(i, "getStaticProps", FALSE, NoParams)>>
             one == renderSinglePage(i, route, m, NoParams, TRUE,
                                     getStaticProps(route, m, NoParams), 1)
         IN Outcome(Generated(1, "ssg-with-data"), one.writes, cs)
    ELSE Outcome(Declined("no-data"), <<>>, <<>>)

\* ---- generate-routes.js 128-205: the result, the files written and the
\* capabilities invoked by renderStaticPage for route i with module m
renderStaticPage(i, route, m) ==
    IF ~m.loads THEN Caught(m, <<>>, <<>>)
    ELSE IF m.getServerSideProps
    THEN Outcome(Declined("has-getServerSideProps"), <<>>, <<>>)
    ELSE IF route.isDynamic
    THEN IF ~m.getStaticPaths THEN Outcome(Declined("dynamic-no-paths"), <<>>, <<>>)
         ELSE LET cs == <<Invocation(i, "getStaticPaths", FALSE, NoParams)>>
              IN IF m.fail = FailAt("paths", 0) THEN Caught(m, <<>>, cs)
                 ELSE LET run == renderPaths(i, route, m, 1,
                                     [threw |-> FALSE, writes |-> <<>>, calls |-> cs])
                      IN IF run.threw THEN Caught(m, run.writes, run.calls)
                         ELSE Outcome(Generated(Len(m.paths), "ssg-dynamic"),
                                      run.writes, run.calls)
    ELSE LET callsProps == m.getStaticProps
             cs == IF callsProps
                   THEN <<Invocation(i, "getStaticProps", FALSE, NoParams)>>
                   ELSE <<>>
             pageProps == IF callsProps THEN getStaticProps(route, m, NoParams)
                          ELSE EmptyProps
         IN IF callsProps /\ m.fail = FailAt("props", 1) THEN Caught(m, <<>>, cs)
            ELSE LET one == renderSinglePage(i, route, m, NoParams, TRUE, pageProps, 1)
                 IN IF one.threw THEN Caught(m, <<>>, cs)
                    ELSE Outcome(Generated(1, IF m.getStaticProps THEN "ssg-with-data"
                                              ELSE "ssg-pure"),
                                 one.writes, cs)

RECURSIVE WriteFiles(_, _, _)
\* fs.writeFileSync for the files of ws from the j-th on: a file replaces the
\* file of the same name
WriteFiles(files, ws, j) ==
    IF j > Len(ws) THEN files
    ELSE WriteFiles({f \in files : f.file # ws[j].file} \cup {ws[j]}, ws, j + 1)

\* the build start that leaves the output directory as it finds it
BuildStart_NoClean(listing, pagesDirExists) ==
    /\ buildPc = "start"
    /\ IF pagesDirExists
       THEN /\ routes' = generateRoutes(listing)
            /\ buildPc' = "client"
       ELSE /\ listing = <<>>
            /\ routes' = routes
            /\ buildPc' = "exit"
    /\ UNCHANGED <<modules, cursor, results, written, disk, invoked, manifestFile>>
    /\ UNCHANGED <<clientVars, dispatchVars, serveVars, registryVars>>

\* ---- generate-routes.js 520-551: the output directory is removed, with
\* the artifacts and the manifest an earlier build left in it, and made
\* anew, the pages directory is scanned and the routes are generated; without
\* a pages directory the build exits
BuildStart(listing, pagesDirExists) ==
    /\ buildPc = "start"
    /\ disk' = {}
    /\ manifestFile' = <<>>
    /\ IF pagesDirExists
       THEN /\ routes' = generateRoutes(listing)
            /\ buildPc' = "client"
       ELSE /\ listing = <<>>
            /\ routes' = routes
            /\ buildPc' = "exit"
    /\ UNCHANGED <<modules, cursor, results, written, invoked>>
    /\ UNCHANGED <<clientVars, dispatchVars, serveVars, registryVars>>

\* ---- generate-routes.js 557-568: vite builds the client code, or the
\* build exits
ClientBuild(ok) ==
    /\ buildPc = "client"
    /\ buildPc' = IF ok THEN "render" ELSE "exit"
    /\ cursor' = IF ok THEN 1 ELSE cursor
    /\ UNCHANGED <<routes, modules, results, written, disk, invoked, manifestFile>>
    /\ UNCHANGED <<clientVars, dispatchVars, serveVars, registryVars>>

\* generate-routes.js 131: the modules import() can find in the page file of
\* the route the render loop is at
PageModules ==
    IF buildPc = "render" /\ cursor \in DOMAIN routes
    THEN ModulesOf(routes[cursor])
    ELSE {}

\* ---- generate-routes.js 580-606: one iteration of the render loop, for
\* the route at cursor, whose page file holds module m
RenderRoute(m) ==
    /\ buildPc = "render"
    /\ cursor <= Len(routes)
    /\ m \in PageModules
    /\ LET out == renderStaticPage(cursor, routes[cursor], m)
       IN  /\ modules' = Append(modules, m)
           /\ results' = Append(results, out.result)
           /\ written' = written \o out.writes
           /\ invoked' = invoked \o out.calls
           /\ disk' = WriteFiles(disk, out.writes, 1)
           /\ IF out.result = NoResult
              THEN \* the rejection ends the script at the await of 581
                   /\ routes' = routes
                   /\ cursor' = cursor
                   /\ buildPc' = "crashed"
              ELSE /\ routes' = [routes EXCEPT ![cursor].renderType =
                                    IF out.result.success THEN "ssg" ELSE "ssr"]
                   /\ cursor' = cursor + 1
                   /\ buildPc' = buildPc
    /\ UNCHANGED manifestFile
    /\ UNCHANGED <<clientVars, dispatchVars, serveVars, registryVars>>

WriteManifest_Early ==
    /\ buildPc = "render"
    /\ manifestFile' = <<routes>>
    /\ buildPc' = "done"
    /\ UNCHANGED <<routes, modules, cursor, results, written, disk, invoked>>
    /\ UNCHANGED <<clientVars, dispatchVars, serveVars, registryVars>>

\* ---- generate-routes.js 618-619: the manifest is persisted
WriteManifest ==
    /\ buildPc = "render"
    /\ cursor > Len(routes)
    /\ manifestFile' = <<routes>>
    /\ buildPc' = "done"
    /\ UNCHANGED <<routes, modules, cursor, results, written, disk, invoked>>
    /\ UNCHANGED <<clientVars, dispatchVars, serveVars, registryVars>>

(***************************************************************************)
(* SERVER AND CLIENT DISPATCH                                              *)
(***************************************************************************)
\* ---- server/index.ts 21, generate-routes.js 516: the directory of the
\* project, which holds the pages directory
ProjectRoot == "/srv/pages/app"

\* The page files of the pages directories the dispatch is checked on, in
\* the order scanPages meets them: those of PageFiles, an index file in a
\* bracketed directory, a static page beside a dynamic one, a page in a
\* .js file, a directory and a file of one parameter name, and a parameter
\* name that begins with another.
TreeFiles ==
    << PageFile("", "about", ".jsx"),
       PageFile("blog/[category]", "[id]", ".jsx"),
       PageFile("blog/[id]", "index", ".jsx"),
       PageFile("blog", "[id]", ".jsx"),
       PageFile("blog", "new", ".jsx"),
       PageFile("", "contact", ".js"),
       PageFile("docs", "[...slug]", ".jsx"),
       PageFile("", "index", ".jsx"),
       PageFile("shop/[id]", "[id]", ".jsx"),
       PageFile("user/[id]", "[idx]", ".jsx") >>

RECURSIVE Tree(_, _)
\* the page files of TreeFiles at the positions S, from position i on
Tree(S, i) ==
    IF i > Len(TreeFiles) THEN <<>>
    ELSE (IF i \in S THEN <<TreeFiles[i]>> ELSE <<>>) \o Tree(S, i + 1)

\* the pages directories of at most MaxRoutes page files
Trees ==
    { Tree(S, 1) : S \in {T \in SUBSET DOMAIN TreeFiles : Cardinality(T) <= MaxRoutes} }

\* the urls requested from the server: req.path, and urls with a query
RequestURLs ==
    { "/", "/about", "/blog/1", "/blog/tech/1", "/blog/i", "/blog/[id]",
      "/blog/new", "/contact", "/docs/a", "/shop/1/2", "/nope",
      "/about?x=1", "/blog/1?ref=/about", "/?q=1" }

\* the values of the parameters of a round trip
TripValues == {"1", "tech"}

\* ---- router.ts 17-28, generate-routes.js 14-40: a route of the manifest
\* the server has loaded, and router.ts 105-119: of the manifest the
\* document hands the client; kept to the fields the dispatch reads
RouteEntry(route) ==
    [ path |-> route.path, pattern |-> route.pattern,
      componentPath |-> ProjectRoot \o "/pages/" \o route.componentPath,
      paramNames |-> route.paramNames, isDynamic |-> route.isDynamic ]

\* ---- router.ts 115:
\* route.componentPath.replace(projectRoot, '').replace('/pages', '')
RelativeToPages(componentPath) ==
    ReplaceFirst(ReplaceFirst(componentPath, ProjectRoot, ""), "/pages", "")

getClientManifest(entries) ==
    [ i \in DOMAIN entries |->
        [ path |-> entries[i].path, paramNames |-> entries[i].paramNames,
          componentPath |-> RelativeToPages(entries[i].componentPath),
          isDynamic |-> entries[i].isDynamic ] ]

\* ---- generate-routes.js 382-391: the files scanPages makes pages of:
\* .jsx and .js files whose name does not begin with _
Accepted(f) == f.ext \in {".jsx", ".js"} /\ Char(f.name, 1) # "_"

\* ---- link.tsx 109: the keys of import.meta.glob('../pages/**/*.{jsx,tsx}')
\* for the pages directory tree
pageModules(tree) ==
    { "../pages/" \o (IF tree[i].base # "" THEN tree[i].base \o "/" ELSE "")
          \o tree[i].name \o tree[i].ext :
        i \in {j \in DOMAIN tree : tree[j].ext \in {".jsx", ".tsx"}} }

\* ---- router.ts 47: url.split('?')[0] || '/'
PathnameOf(url) ==
    LET q == IndexFrom(url, "?", 1)
        p == IF q = 0 THEN url ELSE SubSeq(url, 1, q - 1)
    IN  IF p = "" THEN "/" ELSE p

\* a params object: its keys and the value of each
NamesOf(paramNames) == {paramNames[j] : j \in DOMAIN paramNames}

\* ---- router.ts 81-90: params[name] = match[index + 1] || '' for the
\* names in order, so that the last assignment to a name stays
extractParams(groups, paramNames) ==
    [ n \in NamesOf(paramNames) |->
        LET index == CHOOSE j \in DOMAIN paramNames :
                         /\ paramNames[j] = n
                         /\ \A l \in DOMAIN paramNames : paramNames[l] = n => l <= j
        IN  IF index \in DOMAIN groups THEN groups[index] ELSE "" ]

NoParamsObject == [n \in {} |-> ""]

\* matchRoute returns null
NoRoute == [index |-> 0, pathname |-> "", groups |-> <<>>, params |-> NoParamsObject]

RECURSIVE FirstMatch(_, _, _)
\* router.ts 50-63: the loop over routeManifest.routes from route i on
FirstMatch(entries, path, i) ==
    IF i > Len(entries) THEN [NoRoute EXCEPT !.pathname = path]
    ELSE LET match == RegExpMatch(entries[i].pattern, path)
         IN  IF match.matched
             THEN [ index |-> i, pathname |-> path, groups |-> match.groups,
                    params |-> extractParams(match.groups, entries[i].paramNames) ]
             ELSE FirstMatch(entries, path, i + 1)

\* matchRoute that tests the url as it is, query included
matchRoute_KeepsQuery(entries, url) == FirstMatch(entries, url, 1)

\* ---- router.ts 41-67
matchRoute(entries, url) == FirstMatch(entries, PathnameOf(url), 1)

\* ---- link.tsx 142-155: the predicate of manifest.find
FindsRoute(r, page) ==
    \/ r.path = page
    \/ /\ r.isDynamic
       /\ RegExpMatch("^" \o ReplaceParamSegments(r.path, "[^/]+") \o "$", page).matched

\* ---- link.tsx 140-159: the position of the route manifest.find returns,
\* 0 when it returns undefined and loadPageComponent throws
loadPageComponent(page, manifest) ==
    IF \E i \in DOMAIN manifest : FindsRoute(manifest[i], page)
    THEN CHOOSE i \in DOMAIN manifest :
             /\ FindsRoute(manifest[i], page)
             /\ \A j \in 1..(i - 1) : ~FindsRoute(manifest[j], page)
    ELSE 0

\* ---- the params object that gives the value a[n] to every name n, as the
\* entries getOutputPath goes through: the names in the order of paramNames
RECURSIVE EntriesOf(_, _, _)
EntriesOf(paramNames, a, j) ==
    IF j > Len(paramNames) THEN <<>>
    ELSE (IF \E l \in 1..(j - 1) : paramNames[l] = paramNames[j] THEN <<>>
          ELSE << <<paramNames[j], a[paramNames[j]]>> >>)
             \o EntriesOf(paramNames, a, j + 1)

NoLookup == [op |-> "none"]

\* no request was answered
NoResponse == [kind |-> "none"]

\* no call of on / off / emit
NoOp == [op |-> "none"]

\* ---- router.ts 17-28: the server loads the manifest of the build of the
\* pages directory
LoadManifest ==
    /\ routeManifest = <<>>
    /\ routeManifest' = << [i \in DOMAIN pagesTree |-> RouteEntry(RouteOf(pagesTree[i]))] >>
    /\ UNCHANGED <<pagesTree, matched, located, trip>>
    /\ UNCHANGED <<clientVars, buildVars, serveVars, registryVars>>

\* ---- server/index.ts 64, 100: a request; matchRoute(req.path)
MatchRoute(url) ==
    /\ routeManifest # <<>>
    /\ matched' = [op |-> "matchRoute", url |-> url,
                   result |-> matchRoute(routeManifest[1], url)]
    /\ located' = NoLookup
    /\ trip' = NoLookup
    /\ UNCHANGED <<pagesTree, routeManifest>>
    /\ UNCHANGED <<clientVars, buildVars, serveVars, registryVars>>

\* the pages the client looks up after a request: the path requested, and
\* the page of the answer (server/index.ts 86: matchResult.route.path)
PagesOf(request) ==
    IF request = NoLookup THEN {}
    ELSE {request.result.pathname}
             \cup (IF request.result.index = 0 THEN {}
                   ELSE {routeManifest[1][request.result.index].path})

\* ---- link.tsx 229, 281: the client looks the page up in the manifest of
\* the document
LoadPageComponent(page) ==
    /\ routeManifest # <<>>
    /\ page \in PagesOf(matched)
    /\ LET manifest == getClientManifest(routeManifest[1])
           index == loadPageComponent(page, manifest)
           \* link.tsx 163-168: modulePath and pageModules[modulePath]
           modulePath == IF index = 0 THEN ""
                         ELSE "../pages" \o manifest[index].componentPath
       IN  located' = [op |-> "loadPageComponent", page |-> page,
                       index |-> index, modulePath |-> modulePath,
                       loader |-> modulePath \in pageModules(pagesTree)]
    /\ UNCHANGED <<pagesTree, routeManifest, matched, trip>>
    /\ UNCHANGED <<clientVars, buildVars, serveVars, registryVars>>

\* ---- generate-routes.js 335-339 and router.ts 51-56: the values a are
\* substituted into the path of route i and the pattern of the route is
\* tried on the url; generate-routes.js 332-347 and render-ssg.ts 72-86:
\* the artifact path the build writes for the route and the values, and
\* the one the server reads
RoundTrip(i, a) ==
    /\ routeManifest # <<>>
    /\ i \in DOMAIN routeManifest[1]
    /\ LET route == routeManifest[1][i]
           url == ReplaceParams(route.path, EntriesOf(route.paramNames, a, 1), 1)
           match == RegExpMatch(route.pattern, url)
       IN  /\ a \in [NamesOf(route.paramNames) -> TripValues]
           /\ trip' = [ op |-> "roundTrip", route |-> i, assignment |-> a,
                        url |-> url, matches |-> match.matched,
                        outputPath |->
                            getOutputPath(route.path, EntriesOf(route.paramNames, a, 1)),
                        staticFilePath |->
                            getStaticFilePath(route.path, EntriesOf(route.paramNames, a, 1)),
                        params |-> IF match.matched
                                   THEN extractParams(match.groups, route.paramNames)
                                   ELSE NoParamsObject ]
    /\ matched' = NoLookup
    /\ located' = NoLookup
    /\ UNCHANGED <<pagesTree, routeManifest>>
    /\ UNCHANGED <<clientVars, buildVars, serveVars, registryVars>>

\* the routes the server has loaded
Loaded == IF routeManifest = <<>> THEN <<>> ELSE routeManifest[1]

(***************************************************************************)
(* SERVER: START-UP AND REQUESTS                                           *)
(***************************************************************************)
\* The page files of the projects the server is checked on, in scan order:
\* static pages, the root page, and two dynamic pages one directory apart.
ServedFiles ==
    << PageFile("", "about", ".jsx"),
       PageFile("blog/[category]", "[id]", ".jsx"),
       PageFile("blog", "[id]", ".jsx"),
       PageFile("", "index", ".jsx") >>

RECURSIVE Project(_, _)
\* the page files of ServedFiles at the positions S, from position i on
Project(S, i) ==
    IF i > Len(ServedFiles) THEN <<>>
    ELSE (IF i \in S THEN <<ServedFiles[i]>> ELSE <<>>) \o Project(S, i + 1)

\* the pages directories of at most MaxRoutes page files
Projects ==
    { Project(S, 1) :
        S \in {T \in SUBSET DOMAIN ServedFiles : Cardinality(T) <= MaxRoutes} }

\* The page modules of a served route: with getServerSideProps, which
\* returns or throws at the request; without a capability; and, of a
\* dynamic route, with a getStaticPaths that returns one tuple.
ServedModulesOf(route) ==
    { Module(TRUE, FALSE, FALSE, TRUE, <<>>, TRUE, NoFail),
      Module(TRUE, FALSE, FALSE, TRUE, <<>>, TRUE, FailAt("serverProps", 0)),
      Module(TRUE, FALSE, FALSE, FALSE, <<>>, TRUE, NoFail) }
        \cup (IF route.isDynamic
              THEN { Module(TRUE, FALSE, TRUE, FALSE, <<TupleOf(route, k)>>,
                            TRUE, NoFail) : k \in 1..MaxTuples }
              ELSE {})

\* ---- generate-routes.js 580-606: the manifest routes after the render
\* loop: renderType is ssg where renderStaticPage succeeded, else ssr
BuiltRoutes(tree, ms) ==
    [ i \in DOMAIN tree |->
        [ RouteOf(tree[i]) EXCEPT !.renderType =
            IF renderStaticPage(i, RouteOf(tree[i]), ms[i]).result.success
            THEN "ssg" ELSE "ssr" ] ]

RECURSIVE BuiltFiles(_, _, _, _)
\* ---- generate-routes.js 580-606, 262-267: the files of the output
\* directory after the render loop, from route i on, given those of the
\* routes before it
BuiltFiles(tree, ms, i, files) ==
    IF i > Len(tree) THEN files
    ELSE BuiltFiles(tree, ms, i + 1,
             WriteFiles(files, renderStaticPage(i, RouteOf(tree[i]), ms[i]).writes, 1))

\* the paths requested: req.path
RequestPaths == {"/", "/about", "/blog", "/blog/1", "/blog/2", "/blog/1/1", "/nope"}

\* a call made while a request is handled, and the request it is given
PageCall(fn, kind, reqPath) == [fn |-> fn, kind |-> kind, path |-> reqPath]

\* a response: the middleware or handler that sent it, its status, what its
\* body is, the file the body was read from, the route matched, and the
\* calls made for it
Response(kind, reqPath, by, status, body, file, route, cs) ==
    [ kind |-> kind, path |-> reqPath, by |-> by, status |-> status,
      body |-> body, file |-> file, route |-> route, calls |-> cs ]

IsFile(files, name) == \E f \in files : f.file = name

\* a directory of the output directory: some file lies below it
IsDirectory(files, name) ==
    \E f \in files : /\ Len(f.file) > Len(name) + 1
                     /\ SubSeq(f.file, 1, Len(name) + 1) = name \o "/"

\* nothing was sent: next() was called
Passed == [kind |-> "next"]

\* ---- server/index.ts 41: express.static on the output directory, where
\* the build writes its artifacts: the index.html of a directory requested
\* with a trailing slash and a file requested by name are sent, a directory
\* requested without the slash is redirected to the slash, and next() is
\* called otherwise
ServeStatic(files, kind, reqPath) ==
    IF Char(reqPath, Len(reqPath)) = "/"
    THEN IF IsFile(files, reqPath \o "index.html")
         THEN Response(kind, reqPath, "static", 200, "file",
                       reqPath \o "index.html", 0, <<>>)
         ELSE Passed
    ELSE IF IsFile(files, reqPath)
    THEN Response(kind, reqPath, "static", 200, "file", reqPath, 0, <<>>)
    ELSE IF IsDirectory(files, reqPath)
    THEN Response(kind, reqPath, "static", 301, "redirect", reqPath \o "/", 0, <<>>)
    ELSE Passed

\* ---- render-ssg.ts 19-63: renderSSG (ext ".html") and getSSGData (ext
\* ".json"): the artifact is read, or the read throws
ReadArtifact(files, route, params, ext) ==
    LET name == getStaticFilePath(route.path, EntriesOf(route.paramNames, params, 1))
                    \o ext
    IN  [threw |-> ~IsFile(files, name), file |-> name]

\* ---- render-ssr.tsx 24-74 (renderSSR, renders TRUE) and 84-119
\* (getSSRData, renders FALSE): the module is imported, getServerSideProps
\* is called when the module exports it, and renderSSR renders
RunPage(m, kind, reqPath, renders) ==
    LET imports == <<PageCall("import", kind, reqPath)>>
        props == IF m.getServerSideProps
                 THEN <<PageCall("getServerSideProps", kind, reqPath)>>
                 ELSE <<>>
        render == IF renders THEN <<PageCall("renderToString", kind, reqPath)>>
                  ELSE <<>>
    IN  IF ~m.loads THEN [threw |-> TRUE, calls |-> imports]
        ELSE IF m.getServerSideProps /\ m.fail = FailAt("serverProps", 0)
        THEN [threw |-> TRUE, calls |-> imports \o props]
        ELSE IF renders /\ m.fail = FailAt("render", 1)
        THEN [threw |-> TRUE, calls |-> imports \o props \o render]
        ELSE [threw |-> FALSE, calls |-> imports \o props \o render]

\* ---- server/index.ts 53-92 (kind "data": the request has _next_data=1)
\* and 98-170 (kind "document"): matchRoute; without a match 404; of an ssg
\* route the artifact is read; of another route the page is run; whatever
\* is thrown is caught and answered with 500
HandleRequest(entries, ms, files, kind, reqPath) ==
    LET match == matchRoute(entries, reqPath)
    IN  IF match.index = 0
        THEN Response(kind, reqPath, kind, 404, "not-found", "", 0, <<>>)
        ELSE LET route == entries[match.index]
             IN  IF route.renderType = "ssg"
                 THEN LET read == ReadArtifact(files, route, match.params,
                                      IF kind = "data" THEN ".json" ELSE ".html")
                      IN  IF read.threw
                          THEN Response(kind, reqPath, kind, 500, "error", "",
                                        match.index, <<>>)
                          ELSE Response(kind, reqPath, kind, 200, "artifact",
                                        read.file, match.index, <<>>)
                 ELSE LET run == RunPage(ms[match.index], kind, reqPath,
                                         kind = "document")
                      IN  IF run.threw
                          THEN Response(kind, reqPath, kind, 500, "error", "",
                                        match.index, run.calls)
                          ELSE Response(kind, reqPath, kind, 200,
                                        IF kind = "data" THEN "props" ELSE "rendered",
                                        "", match.index, run.calls)

\* the server that exits on a failed load only when the file is missing
StartFails_MissingOnly(file, parses) == file = <<>>

\* ---- router.ts 17-28: loadManifest throws when readFileSync or
\* JSON.parse throws
StartFails(file, parses) == file = <<>> \/ ~parses

\* ---- server/index.ts 29-36: the server process starts and loads the
\* manifest; when loadManifest throws, process.exit(1)
StartServer ==
    /\ serverPc = "start"
    /\ IF StartFails(manifestFile, manifestParses)
       THEN /\ serverPc' = "exited"
            /\ UNCHANGED <<routeManifest, loadCalls>>
       ELSE /\ routeManifest' = <<manifestFile[1]>>
            /\ loadCalls' = loadCalls + 1
            /\ serverPc' = "loaded"
    /\ UNCHANGED <<manifestParses, response>>
    /\ UNCHANGED <<pagesTree, matched, located, trip>>
    /\ UNCHANGED <<clientVars, buildVars, registryVars>>

\* ---- server/index.ts 174-178: app.listen
Listen ==
    /\ serverPc = "loaded"
    /\ serverPc' = "listening"
    /\ UNCHANGED <<manifestParses, loadCalls, response>>
    /\ UNCHANGED <<clientVars, buildVars, dispatchVars, registryVars>>

\* ---- server/index.ts 41-170: a GET request goes through express.static
\* and, when that calls next(), through the handlers
Request(kind, reqPath) ==
    /\ serverPc = "listening"
    /\ LET static == ServeStatic(disk, kind, reqPath)
       IN  response' = IF static # Passed THEN static
                       ELSE HandleRequest(Loaded, modules, disk, kind, reqPath)
    /\ UNCHANGED <<serverPc, manifestParses, loadCalls>>
    /\ UNCHANGED <<clientVars, buildVars, dispatchVars, registryVars>>

\* what a call of matchRoute gives: a route, no match, or an exception
Thrown == [index |-> -1, pathname |-> "", groups |-> <<>>, params |-> NoParamsObject]

\* ---- router.ts 41-67 with the check of 42-44: matchRoute of the module
\* state
matchRouteOf(manifest, url) ==
    IF manifest = <<>> THEN Thrown ELSE matchRoute(manifest[1], url)

\* ---- router.ts 41: matchRoute is called, be the manifest loaded or not
CallMatchRoute(url) ==
    /\ serverPc \in {"start", "loaded", "listening"}
    /\ matched' = [op |-> "matchRoute", url |-> url,
                   loaded |-> routeManifest # <<>>,
                   result |-> matchRouteOf(routeManifest, url)]
    /\ UNCHANGED <<pagesTree, routeManifest, located, trip>>
    /\ UNCHANGED <<clientVars, buildVars, serveVars, registryVars>>

(***************************************************************************)
(* CLIENT: LISTENER REGISTRY                                               *)
(***************************************************************************)
MaxListeners == 3

\* the event names of RouterEvent
Events == {"routeChangeStart", "routeChangeComplete", "routeChangeError"}

\* handler functions: two that return, and one that unregisters itself
\* from the event it is called for
Handlers == {"h1", "h2", "once"}

\* ---- router.tsx 205-207: Router.on
on(ls, event, handler) == Append(ls, [event |-> event, handler |-> handler])

\* off that removes the handler from every event
off_EveryEvent(ls, event, handler) == SelectSeq(ls, LAMBDA l : l.handler # handler)

\* ---- router.tsx 214-216: Router.off
off(ls, event, handler) ==
    SelectSeq(ls, LAMBDA l : l.event # event \/ l.handler # handler)

RECURSIVE forEach(_, _, _, _)
\* ---- router.tsx 224: forEach over the filtered array hs, from its j-th
\* element on: the handlers are called in turn; ls is this.listeners, which
\* a handler may change, and log the handlers called so far
forEach(hs, j, ls, log) ==
    IF j > Len(hs) THEN [listeners |-> ls, invoked |-> log]
    ELSE forEach(hs, j + 1,
                 IF hs[j].handler = "once" THEN off(ls, hs[j].event, "once") ELSE ls,
                 Append(log, hs[j].handler))

\* ---- router.tsx 223-225: Router.emit on the registry ls
emitOn(ls, event) ==
    forEach(SelectSeq(ls, LAMBDA l : l.event = event), 1, ls, <<>>)

\* a call of the registry: the listeners before it, and the handlers it
\* invoked, in order
Op(op, event, handler, before, hs) ==
    [ op |-> op, event |-> event, handler |-> handler, before |-> before,
      invoked |-> hs ]

RegistryUnchanged ==
    /\ UNCHANGED <<pathname, query, cache, prefetchPromises, history, hidx,
                   inflight, netCalls, calls, failedSince, hydratePc,
                   globalRoot, rootsCreated, rendered, loads, fetchOrder,
                   renderOrder>>
    /\ UNCHANGED <<buildVars, dispatchVars, serveVars>>

\* ---- router.tsx 205-207: on(event, handler)
On(event, handler) ==
    /\ Len(listeners) < MaxListeners
    /\ listeners' = on(listeners, event, handler)
    /\ dispatched' = Op("on", event, handler, listeners, <<>>)
    /\ RegistryUnchanged

\* ---- router.tsx 214-216: off(event, handler)
Off(event, handler) ==
    /\ listeners' = off(listeners, event, handler)
    /\ dispatched' = Op("off", event, handler, listeners, <<>>)
    /\ RegistryUnchanged

\* ---- router.tsx 223-225: emit(event, ...args)
Emit(event) ==
    /\ LET run == emitOn(listeners, event)
       IN  /\ listeners' = run.listeners
           /\ dispatched' = Op("emit", event, "", listeners, run.invoked)
    /\ RegistryUnchanged

(***************************************************************************)
(* INITIAL STATES AND SPECIFICATIONS                                       *)
(***************************************************************************)
\* ---- router.tsx 31-50 and link.tsx 117-123: the state when the document
\* served for url u0 has loaded its client script
InitClient ==
    /\ \E u0 \in URLs :
          /\ pathname = u0
          /\ history = <<u0>>
    /\ query = EmptyQuery
    /\ hidx = 1
    /\ listeners = <<>>
    /\ cache = [u \in URLs |-> NoData]
    /\ prefetchPromises = [u \in URLs |-> 0]
    /\ inflight = {}
    /\ netCalls = [u \in URLs |-> 0]
    /\ calls = <<>>
    /\ failedSince = [u \in URLs |-> FALSE]
    /\ hydratePc = "start"
    /\ globalRoot = 0
    /\ rootsCreated = 0
    /\ rendered = [root |-> 0, data |-> NoData]
    /\ loads = {}
    /\ fetchOrder = <<>>
    /\ renderOrder = <<>>

NoBuild ==
    /\ routes = <<>>
    /\ modules = <<>>
    /\ buildPc = "off"
    /\ cursor = 0
    /\ results = <<>>
    /\ written = <<>>
    /\ disk = {}
    /\ invoked = <<>>
    /\ manifestFile = <<>>

\* the server is not running
NoDispatch ==
    /\ pagesTree = <<>>
    /\ routeManifest = <<>>
    /\ matched = NoLookup
    /\ located = NoLookup
    /\ trip = NoLookup

\* no call of the listener registry is recorded
NoRegistry == dispatched = NoOp

\* no server process has started and no request was made
NoServe ==
    /\ serverPc = "off"
    /\ manifestParses = TRUE
    /\ loadCalls = 0
    /\ response = NoResponse

\* The state once hydrate has succeeded for the document of url u0 and
\* setupRouterEvents has registered its handler.
InitHydrated ==
    /\ \E u0 \in URLs :
          /\ pathname = u0
          /\ history = <<u0>>
          /\ rendered = [root |-> 1, data |-> PageData(u0, 0)]
    /\ query = EmptyQuery
    /\ hidx = 1
    /\ listeners = <<[event |-> "routeChangeComplete", handler |-> "renderHandler"]>>
    /\ cache = [u \in URLs |-> NoData]
    /\ prefetchPromises = [u \in URLs |-> 0]
    /\ inflight = {}
    /\ netCalls = [u \in URLs |-> 0]
    /\ calls = <<>>
    /\ failedSince = [u \in URLs |-> FALSE]
    /\ hydratePc = "done"
    /\ globalRoot = 1
    /\ rootsCreated = 1
    /\ loads = {}
    /\ fetchOrder = <<>>
    /\ renderOrder = <<>>

\* The data layer of the Router: every entry point of fetchPageData and the
\* completions and failures of the requests, from the hydrated page.
NextCache ==
    \/ \E u \in URLs : Push(u)
    \/ \E u \in URLs : Replace(u)
    \/ \E u \in URLs : Prefetch(u)
    \/ \E u \in URLs, force \in BOOLEAN : FetchPageData(u, force)
    \/ \E r \in inflight, kind \in {"page", "error"} : FetchResolve(r, kind)
    \/ \E r \in inflight : FetchReject(r)

InitCache == InitHydrated /\ NoBuild /\ NoDispatch /\ NoServe /\ NoRegistry

SpecCache == InitCache /\ [][NextCache]_vars

\* Navigation and rendering: hydration, push / replace, back / forward, the
\* requests, and the component loads of the routeChangeComplete handler.
NextNav ==
    \/ \E u \in URLs : Push(u)
    \/ \E u \in URLs : Replace(u)
    \/ \E r \in inflight, kind \in {"page", "error"} : FetchResolve(r, kind)
    \/ \E r \in inflight : FetchReject(r)
    \/ \E d \in {-1, 1} : Popstate(d)
    \/ \E found \in BOOLEAN : HydrateRead(found)
    \/ \E o \in {"loadFailed", "noRootElement", "hydrateThrows", "ok"} : HydrateMount(o)
    \/ SetupRouterEvents
    \/ \E l \in loads : LoadDone(l)
    \/ \E l \in loads : LoadFail(l)

InitNav == InitClient /\ NoBuild /\ NoDispatch /\ NoServe /\ NoRegistry

SpecNav == InitNav /\ [][NextNav]_vars

\* A file an earlier build left in the output directory.
StaleArtifact == Artifact(0, "/old", ".html", NoParams, EmptyProps)

\* The manifest an earlier build, of a pages directory without page files,
\* left in the output directory.
StaleManifest == <<>>

\* ---- generate-routes.js 513-518: the build script starts, in a project
\* where no build or an earlier build has run; the browser side is not
\* running
InitBuild ==
    /\ InitClient
    /\ routes = <<>>
    /\ modules = <<>>
    /\ buildPc = "start"
    /\ cursor = 0
    /\ results = <<>>
    /\ written = <<>>
    /\ disk \in {{}, {StaleArtifact}}
    /\ invoked = <<>>
    /\ manifestFile \in {<<>>, <<StaleManifest>>}
    /\ NoDispatch
    /\ NoServe
    /\ NoRegistry

\* The build script, from its start to the manifest write.
NextBuild ==
    \/ \E listing \in Listings, pagesDirExists \in BOOLEAN :
           BuildStart(listing, pagesDirExists)
    \/ \E ok \in BOOLEAN : ClientBuild(ok)
    \/ \E m \in PageModules : RenderRoute(m)
    \/ WriteManifest

SpecBuild == InitBuild /\ [][NextBuild]_vars

\* ---- server/index.ts 28-32: a pages directory has been built and the
\* server starts; the browser side and the build script are not running
InitDispatch ==
    /\ InitClient
    /\ pathname = "/about"
    /\ NoBuild
    /\ pagesTree \in Trees
    /\ routeManifest = <<>>
    /\ matched = NoLookup
    /\ located = NoLookup
    /\ trip = NoLookup
    /\ NoServe
    /\ NoRegistry

\* The server loads the manifest and answers requests, the client looks
\* pages up, and values are substituted into route paths.
NextDispatch ==
    \/ LoadManifest
    \/ \E url \in RequestURLs : MatchRoute(url)
    \/ \E page \in PagesOf(matched) : LoadPageComponent(page)
    \/ \E i \in DOMAIN Loaded :
           \E a \in [NamesOf(Loaded[i].paramNames) -> TripValues] : RoundTrip(i, a)

SpecDispatch == InitDispatch /\ [][NextDispatch]_vars

\* ---- server/index.ts 1-36: a project has been built (every page file has
\* one of its modules, the build has set the render types and written the
\* artifacts) and the server process starts; the manifest file is as the
\* build wrote it, or is missing, or does not hold JSON text.  The browser
\* side is not running and the logs of the build are not kept.
InitServe ==
    /\ InitClient
    /\ pathname = "/about"
    /\ pagesTree \in Projects
    /\ \E ms \in [DOMAIN pagesTree ->
                    UNION {ServedModulesOf(RouteOf(ServedFiles[j])) : j \in DOMAIN ServedFiles}] :
          /\ \A i \in DOMAIN pagesTree : ms[i] \in ServedModulesOf(RouteOf(pagesTree[i]))
          /\ modules = ms
          /\ routes = BuiltRoutes(pagesTree, ms)
          /\ disk = BuiltFiles(pagesTree, ms, 1, {})
          /\ \E kept \in {"written", "missing", "garbled"} :
                /\ manifestFile = IF kept = "missing" THEN <<>>
                                  ELSE <<BuiltRoutes(pagesTree, ms)>>
                /\ manifestParses = (kept # "garbled")
    /\ buildPc = "done"
    /\ cursor = Len(pagesTree) + 1
    /\ results = <<>>
    /\ written = <<>>
    /\ invoked = <<>>
    /\ routeManifest = <<>>
    /\ matched = NoLookup
    /\ located = NoLookup
    /\ trip = NoLookup
    /\ serverPc = "start"
    /\ loadCalls = 0
    /\ response = NoResponse
    /\ NoRegistry

\* The server process: the manifest load, listen, the requests, and calls
\* of matchRoute.
NextServe ==
    \/ StartServer
    \/ Listen
    \/ \E kind \in {"document", "data"}, reqPath \in RequestPaths : Request(kind, reqPath)
    \/ \E url \in {"/about", "/nope"} : CallMatchRoute(url)

SpecServe == InitServe /\ [][NextServe]_vars

\* ---- router.tsx 32-35: a Router has been constructed; nothing else runs
InitRegistry == InitNav

\* The listener registry of the Router: on, off and emit.
NextRegistry ==
    \/ \E event \in Events, handler \in Handlers : On(event, handler)
    \/ \E event \in Events, handler \in Handlers : Off(event, handler)
    \/ \E event \in Events : Emit(event)

SpecRegistry == InitRegistry /\ [][NextRegistry]_vars

\* ---- router.tsx 205-207: a handler that throws is registered for an
\* event, before any navigation and when no other such handler is
RegisterThrower(event) ==
    /\ calls = <<>>
    /\ \A j \in DOMAIN listeners : listeners[j].handler # Thrower
    /\ On(event, Thrower)

InitEvents == InitCache

\* Navigation with listeners of every kind: the page's own handler, and a
\* handler that throws, registered for one of the events.
NextEvents ==
    \/ \E event \in Events : RegisterThrower(event)
    \/ \E u \in URLs : Push(u)
    \/ \E u \in URLs : Replace(u)
    \/ \E r \in inflight, kind \in {"page", "error"} : FetchResolve(r, kind)
    \/ \E r \in inflight : FetchReject(r)

SpecEvents == InitEvents /\ [][NextEvents]_vars



(***************************************************************************)
(* CLAIMS: the data layer (SpecCache)                                      *)
(***************************************************************************)
Calls == DOMAIN calls

InFlightFor(u) == {r \in inflight : r.url = u}

\* C1 as stated: a call for url u made while a request for u is in flight
\* starts no second request, and it and the callers awaiting that request
\* receive the same value.
C1_Original ==
    \A j \in Calls :
        calls[j].during # 0 =>
            /\ calls[j].branch # "network"
            /\ \A i \in Calls :
                  ( /\ calls[i].url = calls[j].url
                    /\ calls[i].req = calls[j].during
                    /\ calls[i].outcome = "data"
                    /\ calls[j].outcome = "data" )
                  => calls[i].result = calls[j].result

\* C1 (amended): a call for url u made while a request for u is in flight
\* never starts a second request.  It joins the pending request, and then
\* settles together with every caller of that request, with the same outcome
\* and the same value; unless it is unforced and u is cached (the request in
\* flight being a forced refresh), and then it gets the cached entry at once.
C1_Coalescing ==
    \A j \in Calls :
        calls[j].during # 0 =>
            /\ calls[j].branch # "network"
            /\ calls[j].branch = "pending" =>
                  /\ calls[j].req = calls[j].during
                  /\ \A i \in Calls :
                        ( /\ calls[i].url = calls[j].url
                          /\ calls[i].req = calls[j].req
                          /\ calls[i].outcome # "none" )
                        => /\ calls[j].outcome = calls[i].outcome
                           /\ calls[j].result = calls[i].result
            /\ calls[j].branch = "cache" =>
                  /\ ~calls[j].force
                  /\ calls[j].cachedAt # NoData
                  /\ calls[j].outcome = "data"
                  /\ calls[j].result = calls[j].cachedAt

\* Scenario D: push(u) during a pending prefetch(u); both have the data of
\* the one request issued.
C1_Witness ==
    \E i, j \in Calls :
        /\ i < j
        /\ calls[i].op = "prefetch" /\ calls[j].op = "push"
        /\ calls[i].url = calls[j].url
        /\ calls[j].during # 0 /\ calls[j].req = calls[i].req
        /\ calls[i].outcome = "data" /\ calls[j].outcome = "data"
        /\ calls[j].result = calls[i].result
        /\ netCalls[calls[i].url] = 1

\* C2: at most one request per url is in flight, and url has a pending
\* entry exactly while its request is in flight (the entry is that request).
C2_OnePending ==
    \A u \in URLs :
        /\ Cardinality(InFlightFor(u)) <= 1
        /\ prefetchPromises[u] # 0 <=> InFlightFor(u) # {}
        /\ prefetchPromises[u] # 0 =>
              [url |-> u, n |-> prefetchPromises[u]] \in inflight

\* A forced refresh of a cached url is in flight, a second caller has
\* joined it, and nothing is pending for the other url.
C2_Witness ==
    \E u, v \in URLs :
        /\ u # v
        /\ cache[u] # NoData /\ prefetchPromises[u] = 2
        /\ InFlightFor(u) = {[url |-> u, n |-> 2]}
        /\ prefetchPromises[v] = 0
        /\ \E j \in Calls : calls[j].url = u /\ calls[j].branch = "pending"

\* C3: once a fetch for url has delivered data, url stays cached, and every
\* later unforced call for url gets the cache entry without any request.
C3_CacheKept ==
    /\ \A i \in Calls :
          calls[i].outcome = "data" => cache[calls[i].url] # NoData
    /\ \A j \in Calls :
          (calls[j].okBefore /\ ~calls[j].force) =>
              /\ calls[j].cachedAt # NoData
              /\ calls[j].branch = "cache"
              /\ calls[j].req = 0
              /\ calls[j].outcome = "data"
              /\ calls[j].result = calls[j].cachedAt

\* A push served from the cache entry an earlier prefetch created, after a
\* later forced refresh of the same url has failed.
C3_Witness ==
    \E j \in Calls :
        /\ calls[j].op = "push" /\ calls[j].okBefore /\ calls[j].afterFail
        /\ calls[j].branch = "cache"
        /\ calls[j].result = PageData(calls[j].url, 1)
        /\ netCalls[calls[j].url] = 2

\* What C4 says of the failure itself: the pending entry is cleared, every
\* caller awaiting the request gets the error, and the cache is untouched.
C4_FailureState ==
    /\ \A u \in URLs : failedSince[u] => prefetchPromises[u] = 0
    /\ \A i \in Calls :
          ( /\ calls[i].req # 0
            /\ [url |-> calls[i].url, n |-> calls[i].req] \notin inflight )
          => calls[i].outcome # "none"
    /\ \A i, j \in Calls :
          ( /\ calls[i].url = calls[j].url
            /\ calls[i].req = calls[j].req /\ calls[i].req # 0 )
          => calls[i].outcome = calls[j].outcome
    /\ \A i \in Calls :
          calls[i].outcome = "error" =>
              /\ calls[i].result = NoData
              /\ calls[i].op = "fetchPageData" => calls[i].settled = "rejected"

C4_FailureStep ==
    \A u \in URLs :
        (failedSince'[u] /\ ~failedSince[u]) =>
            /\ cache'[u] = cache[u]
            /\ prefetchPromises'[u] = 0
            /\ InFlightFor(u)' = {}

\* C4 as stated: ... and the next call for the url issues a fresh request.
C4_Original ==
    /\ C4_FailureState
    /\ \A j \in Calls : calls[j].afterFail => calls[j].branch = "network"

\* C4 (amended): when the request for url fails, the pending entry is
\* cleared, the error reaches every caller awaiting the request and the
\* cache is neither created nor changed; the next call for url issues a
\* fresh request when url has no cache entry or the call is forced, and
\* otherwise returns the unchanged cache entry without a request.
C4_Failure ==
    /\ []C4_FailureState
    /\ [][C4_FailureStep]_vars
    /\ [](\A j \in Calls :
            calls[j].afterFail =>
                IF calls[j].force \/ calls[j].cachedAt = NoData
                THEN calls[j].branch = "network"
                ELSE /\ calls[j].branch = "cache"
                     /\ calls[j].result = calls[j].cachedAt)

\* Two callers of one request have both got its error, and the next call for
\* the url has started a fresh request.
C4_Witness ==
    \E i, j, k \in Calls :
        /\ i < j /\ j < k
        /\ calls[i].url = calls[j].url /\ calls[j].url = calls[k].url
        /\ calls[i].req = calls[j].req
        /\ calls[i].outcome = "error" /\ calls[j].outcome = "error"
        /\ calls[k].afterFail /\ calls[k].branch = "network"
        /\ cache[calls[i].url] = NoData


(***************************************************************************)
(* CLAIMS: navigation and rendering (SpecNav)                              *)
(***************************************************************************)
Navs == {i \in Calls : calls[i].op \in Nav}

HistoryStep(i) == IF calls[i].op = "push" THEN "pushState" ELSE "replaceState"

\* The navigation calls that receive their data in this step.
Arriving(i) ==
    /\ i \in DOMAIN calls'
    /\ calls'[i].op \in Nav
    /\ calls'[i].outcome = "data"
    /\ i \in DOMAIN calls => calls[i].outcome = "none"

\* The navigation calls whose fetch fails in this step.
Failing(i) ==
    /\ i \in Navs
    /\ calls[i].outcome = "none"
    /\ calls'[i].outcome = "error"

\* The data the fetch of call i delivered: the body of the request it
\* awaited, or the cache entry it found.
Fetched(i) ==
    IF calls[i].req = 0 THEN calls[i].result = calls[i].cachedAt
    ELSE /\ calls[i].result.url = calls[i].url
         /\ calls[i].result.n = calls[i].req
         /\ calls[i].result.kind \in {"page", "error"}

C5_Trace ==
    \A i \in Navs :
        /\ calls[i].outcome = "none" =>
              calls[i].trace = <<"routeChangeStart", "fetchPageData">>
        /\ calls[i].outcome = "data" =>
              /\ calls[i].trace = <<"routeChangeStart", "fetchPageData",
                                    "pathname", HistoryStep(i),
                                    "routeChangeComplete">>
              /\ calls[i].payload = calls[i].result
              /\ Fetched(i)
              /\ calls[i].settled = "fulfilled"

C5_Step ==
    \A i \in DOMAIN calls' :
        Arriving(i) =>
            /\ pathname' = calls'[i].url
            /\ query' = QueryOf(calls'[i].result)
            /\ history'[hidx'] = calls'[i].url
            /\ calls'[i].op = "push" =>
                  /\ hidx' > hidx
                  /\ Len(history') = hidx'
            /\ (\A j \in DOMAIN calls' : Arriving(j) => calls'[j].op = "push") =>
                  SubSeq(history', 1, hidx) = SubSeq(history, 1, hidx)
            /\ (\A j \in DOMAIN calls' : Arriving(j) => calls'[j].op = "replace") =>
                  /\ hidx' = hidx
                  /\ Len(history') = Len(history)
                  /\ \A k \in 1..Len(history) : k # hidx => history'[k] = history[k]

\* C5: a push / replace whose fetch succeeds emits routeChangeStart, then
\* requests the data; when the data has arrived it sets pathname and query,
\* then updates the history (push adds an entry after the current one,
\* replace overwrites the current one), then emits routeChangeComplete with
\* the very data the fetch delivered.
C5_Order == []C5_Trace /\ [][C5_Step]_vars

\* A push and a replace have both completed on data fetched from the network.
C5_Witness ==
    \E i, j \in Navs :
        /\ calls[i].op = "push" /\ calls[j].op = "replace"
        /\ calls[i].payload = PageData(calls[i].url, 1)
        /\ calls[j].payload = PageData(calls[j].url, 1)
        /\ calls[i].url # calls[j].url
        /\ Len(calls[i].trace) = 5 /\ Len(calls[j].trace) = 5
        /\ pathname = calls[j].url

C6_Trace ==
    \A i \in Navs :
        calls[i].outcome = "error" =>
            /\ calls[i].settled = "fulfilled"
            /\ calls[i].trace = <<"routeChangeStart", "fetchPageData",
                                  "routeChangeError">>
            /\ calls[i].payload = NoData

C6_Step ==
    /\ \A i \in Navs :
          Failing(i) =>
              /\ UNCHANGED <<pathname, query, history, hidx>>
              /\ netCalls' = netCalls
              /\ inflight' \subseteq inflight
    /\ \A i \in DOMAIN calls' :
          (i \notin DOMAIN calls /\ calls'[i].op \in Nav /\ calls'[i].outcome = "none")
              => UNCHANGED <<pathname, query, history, hidx>>

C7_OneRoot ==
    /\ rootsCreated <= 1
    /\ globalRoot = rootsCreated
    /\ rootsCreated = 1 => hydratePc \in {"setup", "done"}
    /\ rendered.root = globalRoot
    /\ globalRoot = 0 => (rendered.data = NoData /\ renderOrder = <<>>)
    /\ renderOrder # <<>> => rendered.root = 1

\* Two navigations have rendered, one after the other, into the one root.
C7_Witness ==
    /\ Len(renderOrder) = 2
    /\ rootsCreated = 1
    /\ rendered.root = 1
    /\ rendered.data.n >= 1

Last(seq) == seq[Len(seq)]

Position(seq, x) == CHOOSE k \in 1..Len(seq) : seq[k] = x

Shown == {renderOrder[k] : k \in 1..Len(renderOrder)}

Concurrent(i, j) == i \in calls[j].with \/ j \in calls[i].with

Raced ==
    \E i, j \in Shown :
        /\ calls[i].url # calls[j].url
        /\ Concurrent(i, j)

Quiet == loads = {} /\ \A i \in Calls : calls[i].settled # "pending"

\* C8 as stated: after two navigations to different urls were in flight
\* together, the page rendered is that of the navigation whose data fetch
\* completed last.
C8_Original ==
    (Quiet /\ Raced) =>
        \E i \in Shown :
            /\ \A j \in Shown : Position(fetchOrder, j) <= Position(fetchOrder, i)
            /\ rendered.data = calls[i].result

\* C8 (amended): the page rendered is that of the navigation whose handler
\* reached renderPage last, that is, whose page component finished loading
\* last; every rendered navigation had received its data before.
C8_LastRenderWins ==
    /\ renderOrder # <<>> =>
          /\ rendered.data = calls[Last(renderOrder)].result
          /\ rendered.data.kind = "page"
    /\ renderOrder = <<>> => rendered.data.n = 0
    /\ \A i \in Shown :
          /\ i \in Navs
          /\ \E k \in 1..Len(fetchOrder) : fetchOrder[k] = i

\* Two navigations to different urls were in flight together; the one whose
\* data arrived first rendered last and is the page shown.
C8_Witness ==
    /\ Quiet /\ Raced
    /\ Len(renderOrder) = 2 /\ Len(fetchOrder) = 2
    /\ Last(renderOrder) = fetchOrder[1]
    /\ renderOrder[1] = fetchOrder[2]
    /\ rendered.data = calls[fetchOrder[1]].result


(***************************************************************************)
(* CLAIMS: the build (SpecBuild)                                           *)
(***************************************************************************)
\* the routes the render loop has been through
Processed == DOMAIN modules

\* the files written for route i, in the order they were written
WritesOf(i) == SelectSeq(written, LAMBDA w : w.route = i)

\* the capability invocations of route i's module, in order
InvokedOf(i) == SelectSeq(invoked, LAMBDA c : c.route = i)

\* the route as the persisted manifest has it, once it is persisted
Persisted(i) == manifestFile # <<>> => manifestFile[1][i].renderType = routes[i].renderType

\* generating route i threw null / undefined from a capability: the catch
\* block threw in turn, the route has no result and no renderType, and the
\* build has stopped at it without a manifest
Crashed(i) ==
    /\ results[i] = NoResult
    /\ routes[i].renderType = "null"
    /\ buildPc = "crashed"
    /\ cursor = i
    /\ manifestFile = <<>>

\* C9: a route, static or dynamic, whose page module exports
\* getServerSideProps gets renderType ssr from the render loop, with the
\* declined result has-getServerSideProps, whichever of getStaticProps and
\* getStaticPaths the module also exports; no file is written for it, no
\* file of it is in the output directory, none of the module's capabilities
\* (getStaticPaths in particular) is invoked, and the persisted manifest
\* says ssr.
C9_ServerPropsWins ==
    \A i \in Processed :
        (modules[i].loads /\ modules[i].getServerSideProps) =>
            /\ routes[i].renderType = "ssr"
            /\ results[i] = Declined("has-getServerSideProps")
            /\ WritesOf(i) = <<>>
            /\ \A f \in disk : f.route # i
            /\ InvokedOf(i) = <<>>
            /\ Persisted(i)

\* C9 happens: a finished build whose page index.jsx exports only
\* getServerSideProps and whose dynamic page blog/[id].jsx exports
\* getServerSideProps together with getStaticPaths and getStaticProps: both
\* routes are ssr in the manifest and the output directory is empty.
C9_Witness ==
    /\ buildPc = "done"
    /\ \E i \in Processed, j \in Processed :
          /\ routes[i].path = "/"
          /\ modules[i].getServerSideProps
          /\ ~modules[i].getStaticProps /\ ~modules[i].getStaticPaths
          /\ routes[j].path = "/blog/:id"
          /\ modules[j].getServerSideProps
          /\ modules[j].getStaticProps /\ modules[j].getStaticPaths
          /\ manifestFile[1][i].renderType = "ssr"
          /\ manifestFile[1][j].renderType = "ssr"
    /\ written = <<>>
    /\ disk = {}

\* the dynamic routes C10 is about: the module loads and exports
\* getStaticPaths and no getServerSideProps
PathsRoute(i) ==
    /\ routes[i].isDynamic
    /\ modules[i].loads
    /\ modules[i].getStaticPaths
    /\ ~modules[i].getServerSideProps

\* the props of the artifacts of route i for a tuple: getStaticProps({params})
\* when exported, empty props otherwise
PropsFor(i, params) ==
    IF modules[i].getStaticProps
    THEN getStaticProps(routes[i], modules[i], params)
    ELSE EmptyProps

\* one document and one data file per tuple, for the first n tuples of route
\* i's getStaticPaths, each at the output path of the route path and the tuple
PairsOf(i, n) ==
    [ j \in 1..(2 * n) |->
        LET params == modules[i].paths[(j + 1) \div 2]
        IN  Artifact(i, getOutputPath(routes[i].path, params),
                     IF j % 2 = 1 THEN ".html" ELSE ".json",
                     params, PropsFor(i, params)) ]

C11_DynamicNoPaths ==
    \A i \in Processed :
        ( /\ routes[i].isDynamic
          /\ modules[i].loads
          /\ ~modules[i].getServerSideProps
          /\ ~modules[i].getStaticPaths ) =>
            /\ routes[i].renderType = "ssr"
            /\ results[i] = Declined("dynamic-no-paths")
            /\ WritesOf(i) = <<>>
            /\ \A f \in disk : f.route # i
            /\ InvokedOf(i) = <<>>
            /\ Persisted(i)

\* C11 happens: a finished build with two dynamic pages without
\* getStaticPaths and getServerSideProps, one exporting getStaticProps and
\* one exporting nothing but the component: both are ssr in the manifest and
\* the output directory is empty.
C11_Witness ==
    /\ buildPc = "done"
    /\ \E i \in Processed, j \in Processed :
          /\ routes[i].isDynamic /\ routes[j].isDynamic
          /\ modules[i].loads /\ modules[j].loads
          /\ ~modules[i].getServerSideProps /\ ~modules[j].getServerSideProps
          /\ ~modules[i].getStaticPaths /\ ~modules[j].getStaticPaths
          /\ modules[i].getStaticProps /\ ~modules[j].getStaticProps
          /\ manifestFile[1][i].renderType = "ssr"
          /\ manifestFile[1][j].renderType = "ssr"
          /\ results[i].reason = "dynamic-no-paths"
          /\ results[j].reason = "dynamic-no-paths"
    /\ disk = {}

\* the static routes C12 is about: the module loads and exports no
\* getServerSideProps
StaticRoute(i) ==
    /\ ~routes[i].isDynamic
    /\ modules[i].loads
    /\ ~modules[i].getServerSideProps

\* the props of the one page of static route i: those of getStaticProps({})
\* when exported, empty props otherwise
StaticPropsOf(i) ==
    IF modules[i].getStaticProps
    THEN getStaticProps(routes[i], modules[i], NoParams)
    ELSE EmptyProps

\* the document and the data file of static route i
PairOf(i) ==
    LET outputPath == getOutputPath(routes[i].path, NoParams)
    IN  << Artifact(i, outputPath, ".html", NoParams, StaticPropsOf(i)),
           Artifact(i, outputPath, ".json", NoParams, StaticPropsOf(i)) >>

\* what a static route's module is asked: getStaticProps({}) once when it
\* is exported, nothing otherwise (getStaticPaths never)
StaticCalls(i) ==
    IF modules[i].getStaticProps
    THEN <<Invocation(i, "getStaticProps", FALSE, NoParams)>>
    ELSE <<>>

Disposition(route, m) ==
    IF m.getServerSideProps THEN Declined("has-getServerSideProps")
    ELSE IF route.isDynamic
    THEN IF m.getStaticPaths THEN Generated(Len(m.paths), "ssg-dynamic")
         ELSE Declined("dynamic-no-paths")
    ELSE Generated(1, IF m.getStaticProps THEN "ssg-with-data" ELSE "ssg-pure")

\* the five dispositions
Documented ==
    { Declined("has-getServerSideProps"), Declined("dynamic-no-paths"),
      Generated(1, "ssg-with-data"), Generated(1, "ssg-pure") }
    \cup { Generated(n, "ssg-dynamic") : n \in 0..MaxTuples }

C14_State ==
    /\ \A i \in DOMAIN routes :
          IF i \in Processed /\ results[i] # NoResult
          THEN routes[i].renderType \in {"ssg", "ssr"}
          ELSE routes[i].renderType = "null"
    /\ manifestFile # <<>> =>
          /\ Len(manifestFile[1]) = Len(routes)
          /\ Processed = DOMAIN routes
          /\ \A i \in DOMAIN routes :
                manifestFile[1][i].renderType \in {"ssg", "ssr"}

\* a step that changes the renderType of a route changes it from null to
\* ssg or ssr, for the route the render loop is at, together with the
\* arrival of the result of that route's generation
C14_Step ==
    \A i \in DOMAIN routes :
        (i \in DOMAIN routes' /\ routes'[i].renderType # routes[i].renderType) =>
            /\ routes[i].renderType = "null"
            /\ routes'[i].renderType \in {"ssg", "ssr"}
            /\ i = cursor
            /\ Len(results) = i - 1
            /\ Len(results') = i
            /\ routes'[i].renderType = "ssg" <=> results'[i].success

\* C14: the renderType of every route is assigned exactly once during a
\* build, from null to ssg or ssr, when renderStaticPage has returned for
\* that route (generated, declined or failed), and the persisted manifest
\* holds every route with renderType ssg or ssr, never null.
C14_RenderTypeOnce == []C14_State /\ [][C14_Step]_vars

\* C14 happens: a persisted manifest of two routes, one ssg and one ssr.
C14_Witness ==
    /\ manifestFile # <<>>
    /\ Len(manifestFile[1]) = 2
    /\ manifestFile[1][1].renderType = "ssg"
    /\ manifestFile[1][2].renderType = "ssr"

\* generating route i threw: the import, a capability or the renderer
Threw(i) == ~modules[i].loads \/ modules[i].fail # NoFail

\* A route whose generation threw has the failed result and renderType ssr,
\* in the persisted manifest too; the build stops only before the render
\* loop; while the build is in the render loop it can go on; and a finished
\* build has been through every route and has persisted them all, in
\* manifest order.
C15_State ==
    /\ \A i \in Processed :
          Threw(i) =>
              /\ results[i] = Failed
              /\ routes[i].renderType = "ssr"
              /\ Persisted(i)
    /\ buildPc \notin {"start", "client", "render", "done"} =>
          (results = <<>> /\ manifestFile = <<>>)
    /\ buildPc = "render" =>
          ENABLED (WriteManifest \/ \E m \in PageModules : RenderRoute(m))
    /\ buildPc = "done" =>
          /\ Processed = DOMAIN routes
          /\ manifestFile = <<routes>>

\* the step of the render loop for a route, whether its generation threw or
\* not, leaves the build in the render loop, at the next route of the
\* manifest, and leaves the routes and their order as they were but for the
\* renderType of that route
C15_Step ==
    Len(results') = Len(results) + 1 =>
        /\ buildPc' = "render"
        /\ cursor' = cursor + 1
        /\ Len(modules') = cursor
        /\ Len(routes') = Len(routes)
        /\ \A j \in DOMAIN routes : j # cursor => routes'[j] = routes[j]
        /\ routes'[cursor].path = routes[cursor].path

\* C15 as stated: when the generation of a route throws (the import, a
\* capability or the renderer), the exception ends as the failed result of
\* that route and the route gets renderType ssr; the render loop goes on
\* with the next route of the manifest and the manifest is written after the
\* last route: the build never stops because a route failed.
C15_Original == []C15_State /\ [][C15_Step]_vars

(***************************************************************************)
(* CLAIMS: dispatch (SpecDispatch)                                         *)
(***************************************************************************)
\* the url without its query component
BeforeQuery(url) ==
    LET q == IndexFrom(url, "?", 1)
    IN  IF q = 0 THEN url ELSE SubSeq(url, 1, q - 1)

\* the pattern of the i-th loaded route matches the path
PatternMatches(i, path) == RegExpMatch(Loaded[i].pattern, path).matched

\* the capture groups of that match
GroupsOf(i, path) == RegExpMatch(Loaded[i].pattern, path).groups

\* what C16 says of the route matchRoute returns, but for the params: the
\* path tested is the url without its query, the route returned is the
\* first of the manifest whose pattern matches it, and none is returned
\* exactly when no pattern matches
FirstRouteReturned ==
    LET r == matched.result
        path == BeforeQuery(matched.url)
    IN  /\ r.pathname = path
        /\ r.index = 0 <=> \A i \in DOMAIN Loaded : ~PatternMatches(i, path)
        /\ r.index # 0 =>
              /\ r.index \in DOMAIN Loaded
              /\ PatternMatches(r.index, path)
              /\ \A j \in 1..(r.index - 1) : ~PatternMatches(j, path)
              /\ r.groups = GroupsOf(r.index, path)

\* C16 as stated: matchRoute(url) ignores the query, returns the first route
\* in manifest order whose pattern matches the path, no-match exactly when
\* none matches, and for every i the value of params[paramNames[i]] is the
\* i-th capture group of the match.
C16_Original ==
    matched # NoLookup =>
        /\ FirstRouteReturned
        /\ matched.result.index # 0 =>
              LET r == matched.result
                  paramNames == Loaded[r.index].paramNames
              IN  \A i \in DOMAIN paramNames :
                      /\ i \in DOMAIN r.groups
                      /\ r.params[paramNames[i]] = r.groups[i]

\* C16 (amended): matchRoute(url) ignores the query, returns the first route
\* in manifest order whose pattern matches the path, and no-match exactly
\* when none matches.  The keys of params are the names of paramNames, and
\* the value of a name is the capture group at the last position the name
\* has in paramNames, or the empty string when the pattern has no capture
\* group at that position.
C16_MatchRoute ==
    matched # NoLookup =>
        /\ FirstRouteReturned
        /\ matched.result.index # 0 =>
              LET r == matched.result
                  paramNames == Loaded[r.index].paramNames
              IN  /\ DOMAIN r.params = NamesOf(paramNames)
                  /\ \A i \in DOMAIN paramNames :
                        (\A l \in DOMAIN paramNames : l > i => paramNames[l] # paramNames[i])
                            => r.params[paramNames[i]] =
                                   (IF i \in DOMAIN r.groups THEN r.groups[i] ELSE "")

\* C16 happens: a url with a query is requested, the pattern of the first
\* route of the manifest does not match its path and the second route is
\* returned with the capture group as the value of its parameter.
C16_Witness ==
    /\ matched # NoLookup
    /\ matched.url = "/blog/1?ref=/about"
    /\ Len(Loaded) = 2
    /\ matched.result.index = 2
    /\ Loaded[2].paramNames = <<"id">>
    /\ matched.result.params["id"] = "1"

\* C17 as stated: for every route of the manifest and every assignment of
\* non-empty values without '/' to its parameter names, the url made by
\* substituting the values into the route path is matched by the pattern of
\* the route, and the params extracted from the match are the assignment.
C17_Original ==
    trip # NoLookup =>
        /\ trip.matches
        /\ trip.params = trip.assignment

\* the number of capture groups of a pattern
CaptureGroups(pattern) ==
    LET items == RegExpCompile(SubSeq(pattern, 2, Len(pattern) - 1))
    IN  Cardinality({k \in DOMAIN items : items[k].group})

\* C18 as stated: every route of a manifest made from a pages directory has
\* as many parameter names as its pattern has capture groups, the i-th name
\* for the i-th group.
C18_Original ==
    \A i \in DOMAIN Loaded :
        Len(Loaded[i].paramNames) = CaptureGroups(Loaded[i].pattern)

\* the path of a page file relative to the pages directory, without the
\* extension
RelativePath(f) == IF f.base = "" THEN f.name ELSE f.base \o "/" \o f.name

RECURSIVE Bracketed(_)
\* the names of the bracketed segments [name] of a relative path, left to
\* right
Bracketed(s) ==
    IF Len(s) = 0 THEN <<>>
    ELSE LET close == IF Char(s, 1) = "[" THEN IndexFrom(s, "]", 2) ELSE 0
         IN  IF close # 0
             THEN <<SubSeq(s, 2, close - 1)>> \o Bracketed(From(s, close + 1))
             ELSE Bracketed(From(s, 2))

\* the string sub occurs in s
Contains(s, sub) ==
    \E k \in 1..(Len(s) - Len(sub) + 1) : SubSeq(s, k, k + Len(sub) - 1) = sub

\* C19 as stated: for every page file of the pages directory, every
\* bracketed segment [name] of its relative path, in a directory name, in
\* the file name, and in the directory of an index file, is in the path of
\* its route as the placeholder :name.
C19_Original ==
    \A i \in DOMAIN Loaded :
        LET names == Bracketed(RelativePath(pagesTree[i]))
        IN  \A k \in DOMAIN names : Contains(Loaded[i].path, ":" \o names[k])

\* C20 as stated: when the server's matchRoute and the client's
\* loadPageComponent are given the same path and the manifest of the same
\* build, they select the route at the same position of the manifest, or
\* both select none.
C20_Original ==
    (located # NoLookup /\ located.page = matched.result.pathname) =>
        located.index = matched.result.index

\* the positions of the loaded routes whose path is the page
ExactAt(page) == {i \in DOMAIN Loaded : Loaded[i].path = page}

\* the positions of the dynamic loaded routes whose wildcard pattern the
\* page matches
DynamicAt(page) ==
    { i \in DOMAIN Loaded :
        /\ Loaded[i].isDynamic
        /\ RegExpMatch("^" \o ReplaceParamSegments(Loaded[i].path, "[^/]+") \o "$",
                       page).matched }

\* the least position of a non-empty set of positions
First(S) == CHOOSE i \in S : \A j \in S : i <= j

\* C21 as stated: loadPageComponent selects the first entry whose path is
\* the page exactly; only when there is none it selects the first dynamic
\* route, in manifest order, whose pattern the page matches; and none when
\* there is neither.
C21_Original ==
    located # NoLookup =>
        located.index = (IF ExactAt(located.page) # {} THEN First(ExactAt(located.page))
                         ELSE IF DynamicAt(located.page) # {} THEN First(DynamicAt(located.page))
                         ELSE 0)

\* C22 as stated: for every route path and parameter map the server's
\* getStaticFilePath gives the path the build's getOutputPath gives, so the
\* server looks up the artifact the build wrote.
C22_Original ==
    trip # NoLookup => trip.staticFilePath = trip.outputPath

RECURSIVE Substituted(_, _)
\* the route path s with every placeholder :name of a name of the
\* assignment a replaced by the value of the name, and nothing else
\* replaced; a placeholder is a ':' and the characters up to the next '/'
Substituted(s, a) ==
    IF Len(s) = 0 THEN s
    ELSE LET end == IF Char(s, 1) = ":" THEN SegmentEnd(s, 2) ELSE 0
         IN  IF end >= 2
             THEN (IF SubSeq(s, 2, end) \in DOMAIN a THEN a[SubSeq(s, 2, end)]
                   ELSE SubSeq(s, 1, end))
                      \o Substituted(From(s, end + 1), a)
             ELSE Char(s, 1) \o Substituted(From(s, 2), a)

\* C29 as stated: the artifact path of a route and an assignment is the
\* route path with every occurrence of each placeholder :name replaced by
\* the value of name and nothing else replaced, and /index for the root
\* path.
C29_Original ==
    trip # NoLookup =>
        LET path == Substituted(Loaded[trip.route].path, trip.assignment)
        IN  trip.outputPath = (IF path = "/" THEN "/index" ELSE path)

\* C26 as stated: in the manifest of a build, when the patterns of a static
\* route and of a dynamic route both match a path, the static route stands
\* earlier, so that matchRoute returns the static route for the path.
C26_Original ==
    \A url \in RequestURLs :
        \A i \in DOMAIN Loaded, j \in DOMAIN Loaded :
            ( /\ ~Loaded[i].isDynamic
              /\ Loaded[j].isDynamic
              /\ PatternMatches(i, BeforeQuery(url))
              /\ PatternMatches(j, BeforeQuery(url)) )
                => ( /\ i < j
                     /\ matchRoute(Loaded, url).index = i )

(***************************************************************************)
(* CLAIMS: the server process (SpecServe)                                  *)
(***************************************************************************)
\* the manifest file is missing or malformed
ManifestUnreadable == manifestFile = <<>> \/ ~manifestParses

Hit == matchRoute(Loaded, response.path)

Answered == response # NoResponse

\* the artifact of the answered request: the document of a full request,
\* the data payload of a data-only request
ArtifactOf(route, params, kind) ==
    getStaticFilePath(route.path, EntriesOf(route.paramNames, params, 1))
        \o (IF kind = "data" THEN ".json" ELSE ".html")

Invoked(fn) ==
    \E j \in DOMAIN response.calls :
        response.calls[j] = PageCall(fn, response.kind, response.path)

\* C27 as stated: a request whose path matches no route gets a not-found
\* response, be it data-only or a document request: no server error, and no
\* page module is loaded or rendered for it.
C27_Original ==
    Answered /\ Hit.index = 0
        => response.status = 404 /\ response.calls = <<>>

\* C24 as stated: a request that matches an ssg route whose artifact is
\* absent from disk is answered with a server error, be it data-only or a
\* document request, and nothing is rendered for it.
C24_Original ==
    Answered /\ Hit.index # 0
        => LET route == Loaded[Hit.index]
           IN  /\ route.renderType = "ssg"
               /\ ~IsFile(disk, ArtifactOf(route, Hit.params, response.kind))
               => response.status = 500 /\ response.calls = <<>>

\* C23 as stated: a request that matches an ssg route is answered with the
\* stored artifact (the document, or the data payload of a data-only
\* request) or not served, and no capability and no renderer is invoked
\* for it; a request that matches another route has getServerSideProps
\* invoked with the request, and is rendered when that returns.
C23_Original ==
    Answered /\ Hit.index # 0
        => LET route == Loaded[Hit.index]
           IN  IF route.renderType = "ssg"
               THEN /\ response.calls = <<>>
                    /\ response.status = 200
                           => /\ response.body = "artifact"
                              /\ response.file = ArtifactOf(route, Hit.params, response.kind)
               ELSE /\ Invoked("getServerSideProps")
                    /\ response.status = 200 => Invoked("renderToString")

(***************************************************************************)
(* CLAIMS: the listener registry (SpecRegistry)                            *)
(***************************************************************************)
\* the positions of the registrations of ls for the event
PositionsFor(ls, event) == {j \in DOMAIN ls : ls[j].event = event}

\* the positions of the registrations of the handler for the event
PositionsOf(ls, event, handler) ==
    {j \in DOMAIN ls : ls[j].event = event /\ ls[j].handler = handler}

\* the k-th position of P in ascending order
Kth(P, k) == CHOOSE j \in P : Cardinality({l \in P : l < j}) = k - 1

C30_ForcedRefresh ==
    /\ \A i \in Calls :
          calls[i].op = "fetchPageData" /\ calls[i].force
              => /\ calls[i].branch # "cache"
                 /\ calls[i].req # 0
                 /\ calls[i].during = 0
                        => /\ calls[i].branch = "network"
                           /\ \A j \in 1..(i - 1) :
                                  calls[j].url = calls[i].url
                                      => calls[j].req < calls[i].req
                           /\ calls[i].cachedAt # NoData
                                  => calls[i].cachedAt.n < calls[i].req
                           /\ calls[i].outcome = "data"
                                  => /\ calls[i].result.n = calls[i].req
                                     /\ cache[calls[i].url] # NoData
                                     /\ cache[calls[i].url].n >= calls[i].req
                 /\ calls[i].during # 0
                        => /\ calls[i].branch = "pending"
                           /\ calls[i].req = calls[i].during
    /\ \A u \in URLs :
          netCalls[u] = Cardinality({j \in Calls : /\ calls[j].url = u
                                                  /\ calls[j].branch = "network"})

\* A forced fetchPageData made while u was cached and no request was in
\* flight has replaced the cache entry with the result of its own request,
\* and another forced call made during that request awaited it.
C30_Witness ==
    \E i, j \in Calls :
        /\ calls[i].op = "fetchPageData" /\ calls[i].force
        /\ calls[i].cachedAt # NoData /\ calls[i].during = 0
        /\ calls[i].outcome = "data"
        /\ cache[calls[i].url] = calls[i].result
        /\ calls[i].result # calls[i].cachedAt
        /\ calls[j].op = "fetchPageData" /\ calls[j].force
        /\ calls[j].url = calls[i].url
        /\ calls[j].during = calls[i].req
        /\ calls[j].branch = "pending"

(***************************************************************************)
(* CLAIMS: navigation events (SpecEvents)                                  *)
(***************************************************************************)
\* the number of times call i has emitted the event
Emitted(i, event) ==
    Cardinality({k \in DOMAIN calls[i].trace : calls[i].trace[k] = event})

\* C31 as stated: every push or replace emits routeChangeStart exactly
\* once, and once it has settled it has emitted exactly one of
\* routeChangeComplete and routeChangeError, whatever the listeners do.
C31_Original ==
    \A i \in Calls :
        calls[i].op \in Nav
            => /\ Emitted(i, "routeChangeStart") = 1
               /\ calls[i].settled # "pending"
                      => Emitted(i, "routeChangeComplete")
                             + Emitted(i, "routeChangeError") = 1

(***************************************************************************)
(* CLAIMS: prefetch (SpecCache)                                            *)
(***************************************************************************)
\* the calls that began or went on in the step
Touched == {i \in DOMAIN calls' : i \notin DOMAIN calls \/ calls'[i] # calls[i]}

\* no prefetch has rejected or emitted a navigation event
C32_State ==
    \A i \in Calls :
        calls[i].op = "prefetch"
            => /\ calls[i].settled # "rejected"
               /\ \A event \in Events : Emitted(i, event) = 0
               /\ calls[i].outcome = "error" => calls[i].settled = "fulfilled"

\* a step in which only prefetch calls began or went on leaves the
\* location, the history, the listeners and the page as they were
C32_Step ==
    (Touched # {} /\ \A i \in Touched : calls'[i].op = "prefetch")
        => /\ pathname' = pathname
           /\ query' = query
           /\ history' = history
           /\ hidx' = hidx
           /\ listeners' = listeners
           /\ rendered' = rendered
           /\ loads' = loads
           /\ fetchOrder' = fetchOrder

\* C32: prefetch(u) changes nothing but the cache and the pending table:
\* it never rejects (a failed fetch is swallowed and the call fulfils),
\* emits no navigation event, and leaves pathname, query and the browser
\* history unchanged, when it is called and when its fetch settles.
C32_PrefetchFrame == []C32_State /\ [][C32_Step]_vars

\* a prefetch whose request failed has fulfilled, and nothing is cached
C32_Witness ==
    \E i \in Calls :
        /\ calls[i].op = "prefetch"
        /\ calls[i].branch = "network"
        /\ calls[i].outcome = "error"
        /\ calls[i].settled = "fulfilled"
        /\ cache[calls[i].url] = NoData
        /\ pathname = "/about" /\ history = <<"/about">>

(***************************************************************************)
(* CLAIMS: the loader map (SpecDispatch)                                   *)
(***************************************************************************)
\* C33 as stated: whenever the client has found the route of a page whose
\* file the route compiler accepts, the componentPath of the route prefixed
\* with ../pages is a key of the loader map, so that the page component is
\* loaded.
C33_Original ==
    /\ located.op = "loadPageComponent"
    /\ located.index # 0
    /\ Accepted(pagesTree[located.index])
    => located.loader

(***************************************************************************)
(* CLAIMS: error responses (SpecCache)                                     *)
(***************************************************************************)
\* C34 as stated: the cache holds only page data of successful data-only
\* responses, and a call whose request the server answered with a
\* not-found or server-error response fails: what is delivered to a caller
\* is page data.
C34_Original ==
    /\ \A u \in URLs : cache[u].kind \in {"none", "page"}
    /\ \A i \in Calls : calls[i].outcome = "data" => calls[i].result.kind = "page"

(***************************************************************************)
(* CLAIMS: artifacts of a build (SpecBuild)                                *)
(***************************************************************************)
\* C35 as stated: no two (route, parameter tuple) pairs generated in one
\* build are written to the same artifact path: two writes of one file
\* name come from the same route and the same tuple, so every file on the
\* disk holds the page of the only pair that maps to its path.
C35_Original ==
    \A a \in DOMAIN written, b \in DOMAIN written :
        written[a].file = written[b].file
            => /\ written[a].route = written[b].route
               /\ written[a].params = written[b].params

\* C36 as stated: a route whose renderType in the persisted manifest is ssr
\* has no artifact in the output directory, also when generating a dynamic
\* route failed after the artifacts of some tuples had been written.
C36_Original ==
    manifestFile # <<>>
        => \A i \in DOMAIN manifestFile[1] :
               manifestFile[1][i].renderType = "ssr"
                   => \A f \in disk : f.route # i

\* a manifest in the output directory is the one an earlier build left,
\* which the build that starts has not yet removed, or the one of the
\* build that ran to completion: the render loop is past the last route,
\* every route has its result and its renderType, and the manifest holds
\* the routes as they are then
C38_State ==
    manifestFile # <<>> =>
        \/ buildPc = "start" /\ manifestFile = <<StaleManifest>>
        \/ /\ buildPc = "done"
           /\ cursor > Len(routes)
           /\ Len(results) = Len(routes)
           /\ \A i \in DOMAIN routes : routes[i].renderType \in {"ssg", "ssr"}
           /\ manifestFile = <<routes>>

\* the manifest changes when the build starts, which removes it, and when
\* the render loop has resolved every route, which writes it
C38_Step ==
    manifestFile' # manifestFile =>
        \/ buildPc = "start" /\ manifestFile' = <<>>
        \/ buildPc = "render" /\ cursor > Len(routes) /\ buildPc' = "done"

\* C38: a manifest file exists in the output directory only when the build
\* ran to completion: the output directory is emptied at the start of the
\* build and the manifest is written only after every route is resolved, so
\* a build that exits or crashes half way leaves no manifest, not even the
\* one of an earlier build.
C38_ManifestOnlyWhenComplete == []C38_State /\ [][C38_Step]_vars

\* C38 happens: a build crashed in the render loop after it had written
\* artifacts, and the output directory holds no manifest.
C38_Witness ==
    /\ buildPc = "crashed"
    /\ disk # {}
    /\ manifestFile = <<>>

(***************************************************************************)
(* CLAIMS: the rendered page (SpecNav)                                     *)
(***************************************************************************)
\* every navigation event so far has fully completed: the page is hydrated
\* and its handler registered, no request is in flight, no call is pending
\* and no page component is loading
Completed ==
    /\ hydratePc = "done"
    /\ globalRoot # 0
    /\ calls # <<>>
    /\ inflight = {}
    /\ Quiet

\* C37 as stated: after every navigation event that has fully completed
\* (push, replace, popstate), the page rendered in the mount point is the
\* page of the location held in the router's pathname and shown in the
\* address bar.
C37_Original ==
    Completed =>
        /\ pathname = history[hidx]
        /\ rendered.data.kind = "page"
        /\ rendered.data.url = pathname

====
